---- MODULE Spec2Model ----
(***************************************************************************)
(* A model of the Zotero Go client: the transport (doRequest,              *)
(* doWriteRequest, doFileAuthRequest), the versioned write operations and  *)
(* the attachment upload sequence.  The remote server is the environment:  *)
(* every request that is sent is answered by a reply drawn from a small    *)
(* set (a transport failure, a body-read failure, or a status with a       *)
(* body).  A call is made with a context that is either live or already    *)
(* cancelled; during the multi-request calls the context can be cancelled  *)
(* between two requests.                                                   *)
(***************************************************************************)
EXTENDS Integers, Sequences, FiniteSets, TLC

VARIABLES
    client,     \* the Client struct (configuration, fixed after NewClient)
    ctxDone,    \* TRUE when the context of the current call is cancelled
    op,         \* name of the public operation last called
    args,       \* the arguments the caller passed to it
    after,      \* the caller's argument values when the call returned
    pc,         \* position of the call: "idle", an upload step, or "done"
    requests,   \* the HTTP requests the call has sent, in order
    responses,  \* the reply the environment gave to each of them
    result,     \* [err, value] returned by the call
    up,         \* local variables of UploadAttachment / AddTags in progress
    server,     \* state of the version-enforcing server (SpecV only)
    prev        \* the caller's previous call and its outcome (SpecV only)

vars ==
    <<client, ctxDone, op, args, after, pc, requests, responses, result, up, server, prev>>

-----------------------------------------------------------------------------
(* Bounds of the model *)

\* largest version number a caller or a server uses
MaxVersion == 2
\* longest batch whose elements are enumerated one by one
MaxSeq == 2
\* how far beyond the batch limit the uniform batches go
MaxOver == 1

(* Program constants *)

\* "maximum 50 items per request"
MaxBatch == 50

-----------------------------------------------------------------------------
(* Values *)

NoArgs == [tag |-> "none"]         \* a call without arguments
NilPtr == [tag |-> "nil"]          \* a nil pointer / nil result
NilBody == [tag |-> "nil"]         \* a nil []byte
NoText == [tag |-> "notext"]       \* an error text that quotes no body
EmptyBody == [tag |-> "empty"]     \* a response with no body bytes
JunkBody == [tag |-> "junk"]       \* body bytes that are not JSON

NoErr == [kind |-> "nil", status |-> 0, body |-> NoText]

\* fmt.Errorf(msg): an error whose text quotes neither a status nor a body
Errorf(msg) == [kind |-> msg, status |-> 0, body |-> NoText]

\* fmt.Errorf("...: %d, body: %s", status, body)
ErrorfStatus(msg, status, body) == [kind |-> msg, status |-> status, body |-> body]

\* fmt.Errorf(prefix + ": %w", err): the text of err is kept
Wrap(prefix, err) == [err EXCEPT !.kind = prefix \o ": " \o err.kind]

Keys == {"", "ABCD1234"}
Versions == -1 .. MaxVersion
Titles == {"Updated Once", "Updated Twice"}

Statuses == {200, 201, 204, 400, 412}

NetErr == [kind |-> "neterr", status |-> 0, body |-> NilBody, lmv |-> <<>>]

\* the replies a request can get when the response bodies are `bodies`
\* and the Last-Modified-Version headers are `lmvs`
Replies(bodies, lmvs) ==
    {NetErr}
    \cup [kind : {"readerr"}, status : {200, 412}, body : {NilBody}, lmv : {<<>>}]
    \cup [kind : {"resp"}, status : Statuses, body : bodies, lmv : lmvs]

PlainReplies == Replies({EmptyBody, JunkBody}, {<<>>})

\* bodies of the multi-object write endpoint: "success" maps a batch index
\* to the assigned key, "failed" maps it to {code, message}
WriteBody(success, unchanged, failed) ==
    [tag |-> "wr", success |-> success, unchanged |-> unchanged, failed |-> failed]

Failure == [code |-> 400, message |-> "Invalid item type"]

BodyCreated == WriteBody([i \in {"0"} |-> [s |-> "ABCD1234"]], <<>>, <<>>)
BodyFailed == WriteBody(<<>>, <<>>, [i \in {"0"} |-> Failure])
BodyPartial ==
    WriteBody([i \in {"0"} |-> [s |-> "ABCD1234"]],
              [i \in {"2"} |-> [s |-> "IJKL9012"]],
              [i \in {"1"} |-> Failure])

\* an item as the server returns it
ServerItem(key, version, title, tags) ==
    [Key |-> key, Version |-> version,
     Data |-> [Key |-> key, Version |-> version, ItemType |-> "book",
               Title |-> title, Tags |-> tags]]

ItemBody(item) == [tag |-> "item", item |-> item]

ItemReplies ==
    Replies({EmptyBody, JunkBody,
             ItemBody(ServerItem("ABCD1234", MaxVersion, "Updated Once", <<>>))}, {<<>>})

\* strconv.Itoa for the version numbers of the model
Itoa(n) == IF n < 0 THEN <<"-", ToString(0 - n)>> ELSE <<ToString(n)>>

DigitChars == {"0", "1", "2", "3", "4", "5", "6", "7", "8", "9"}
DigitValue(ch) == CHOOSE n \in 0 .. 9 : ToString(n) = ch

RECURSIVE DigitsValue(_)
DigitsValue(s) ==
    IF s = <<>> THEN 0 ELSE 10 * DigitsValue(SubSeq(s, 1, Len(s) - 1)) + DigitValue(s[Len(s)])

\* strconv.Atoi on a header value (a sequence of characters)
Atoi(s) ==
    LET signed == s # <<>> /\ s[1] \in {"+", "-"}
        digits == IF signed THEN Tail(s) ELSE s
    IN  IF digits = <<>> \/ \E i \in 1 .. Len(digits) : digits[i] \notin DigitChars
        THEN [ok |-> FALSE, val |-> 0]
        ELSE [ok |-> TRUE,
              val |-> IF signed /\ s[1] = "-" THEN 0 - DigitsValue(digits)
                      ELSE DigitsValue(digits)]

RepliesOf(statuses, bodies, lmvs) ==
    [kind : {"resp"}, status : statuses, body : bodies, lmv : lmvs]

\* answers to the create request of an upload
BodyNothing == WriteBody(<<>>, <<>>, <<>>)
BodyNotAString == WriteBody([i \in {"0"} |-> [n |-> 7]], <<>>, <<>>)
BodyMixed ==
    WriteBody([i \in {"0", "1"} |-> IF i = "0" THEN [n |-> 7] ELSE [s |-> "ABCD1234"]],
              <<>>, <<>>)
BodyFailedElsewhere == WriteBody(<<>>, <<>>, [i \in {"1"} |-> Failure])

StubReplies ==
    {NetErr}
    \cup RepliesOf({400}, {JunkBody}, {<<>>})
    \cup RepliesOf({201}, {BodyCreated}, {<<>>})
    \cup RepliesOf({200}, {JunkBody, BodyCreated, BodyFailed, BodyNothing, BodyNotAString,
                           BodyMixed, BodyFailedElsewhere}, {<<>>})

\* answers to an upload authorization request
AuthBody(exists, url, params, uploadKey) ==
    [tag |-> "auth", exists |-> exists, url |-> url, params |-> params,
     uploadKey |-> uploadKey]

Absent == [absent |-> TRUE]
StorageURL == [s |-> "https://storage.example.org/upload"]
StorageParams == [o |-> [f \in {"key", "acl"} |-> IF f = "key" THEN [s |-> "abc"] ELSE [n |-> 1]]]

AuthNew == AuthBody(Absent, StorageURL, StorageParams, [s |-> "UPLOADKEY"])
AuthNotExisting == AuthBody([n |-> 0], StorageURL, StorageParams, [s |-> "UPLOADKEY"])
AuthExists == AuthBody([n |-> 1], Absent, Absent, Absent)
AuthNoURL == AuthBody(Absent, Absent, StorageParams, [s |-> "UPLOADKEY"])
AuthNoParams == AuthBody(Absent, StorageURL, Absent, [s |-> "UPLOADKEY"])

LMVHeaders == {<<>>, <<"x">>, Itoa(0), Itoa(MaxVersion)}

AuthReplies ==
    {NetErr}
    \cup [kind : {"readerr"}, status : {200, 412}, body : {NilBody}, lmv : {<<>>}]
    \cup RepliesOf({400}, {JunkBody, AuthExists}, {<<>>})
    \cup RepliesOf({412}, {AuthExists}, {<<>>})
    \cup RepliesOf({200}, {JunkBody, AuthNew, AuthNotExisting, AuthExists, AuthNoURL,
                           AuthNoParams}, LMVHeaders)

\* answers of the storage service to the multipart upload
StorageReplies ==
    {NetErr}
    \cup [kind : {"readerr"}, status : {200, 412}, body : {NilBody}, lmv : {<<>>}]
    \cup RepliesOf({200, 201, 204}, {EmptyBody}, {<<>>})
    \cup RepliesOf({202, 400}, {JunkBody}, {<<>>})

\* answers to the registration request
RegisterReplies ==
    {NetErr}
    \cup RepliesOf({200, 204, 412}, {EmptyBody}, {<<>>})

\* answers to the final GET of the attachment item
FinalReplies ==
    {NetErr}
    \cup RepliesOf({200, 400},
                   {JunkBody, ItemBody(ServerItem("ABCD1234", MaxVersion, "a.pdf", <<>>))},
                   {<<>>})

BatchReplies == Replies({JunkBody, BodyCreated, BodyFailed, BodyPartial}, {<<>>})

-----------------------------------------------------------------------------
(* Client configuration *)

\* NewClient: the rate limiter exists iff RateLimit > 0
NewClient(libraryType, apiKey, rateLimit) ==
    [BaseURL |-> "https://api.zotero.org",
     LibraryID |-> "12345",
     LibraryType |-> libraryType,
     APIKey |-> apiKey,
     RateLimit |-> rateLimit,
     RetryConfig |-> NilPtr,
     rateLimiter |-> rateLimit > 0]

\* the RetryConfig of TestWithRetry (intervals left out)
TestRetryConfig == [MaxAttempts |-> 3, Multiplier |-> 2, Jitter |-> TRUE]

RetryConfigs == {NilPtr, TestRetryConfig}

\* the option WithRetry applied to a client
WithRetry(c, config) == [c EXCEPT !.RetryConfig = config]

\* every pair of choices (library type, API key, rate limit, retry
\* configuration) occurs
Clients ==
    {NewClient("users", "test-key", 1), NewClient("users", "", 0),
     NewClient("groups", "test-key", 0), NewClient("groups", "", 1),
     WithRetry(NewClient("users", "test-key", 0), TestRetryConfig),
     WithRetry(NewClient("groups", "", 1), TestRetryConfig)}

-----------------------------------------------------------------------------
(* JSON encoding of the data payloads (encoding/json with omitempty) *)

\* a field a struct literal leaves out holds its zero value
Field(d, name, zero) == IF name \in DOMAIN d THEN d[name] ELSE zero

MarshalItemData(d) ==
    LET str == {"title", "linkMode", "contentType", "filename", "md5", "parentItem"}
        goName == [f \in str \cup {"key"} |->
                     CASE f = "key" -> "Key"
                       [] f = "title" -> "Title"
                       [] f = "linkMode" -> "LinkMode"
                       [] f = "contentType" -> "ContentType"
                       [] f = "filename" -> "Filename"
                       [] f = "md5" -> "MD5"
                       [] f = "parentItem" -> "ParentItem"]
    IN  [f \in {"itemType", "relations"}
               \cup {g \in str \cup {"key"} : Field(d, goName[g], "") # ""}
               \cup (IF Field(d, "Version", 0) # 0 THEN {"version"} ELSE {})
               \cup (IF Field(d, "MTime", 0) # 0 THEN {"mtime"} ELSE {})
               \cup (IF Field(d, "Tags", <<>>) # <<>> THEN {"tags"} ELSE {})
           |-> CASE f = "itemType" -> [s |-> d.ItemType]
                 [] f = "relations" -> [o |-> <<>>]
                 [] f = "version" -> [n |-> d.Version]
                 [] f = "mtime" -> [n |-> d.MTime]
                 [] f = "tags" -> [l |-> d.Tags]
                 [] OTHER -> [s |-> d[goName[f]]]]

\* ParentCollectionRef.MarshalJSON: "" becomes false, a key becomes a string
MarshalParentCollectionRef(p) ==
    IF p = "" THEN [b |-> FALSE] ELSE [s |-> p]

\* ParentCollectionRef.UnmarshalJSON: false gives the empty reference, true
\* is an error, a string gives that key, anything else is an error
UnmarshalParentCollectionRef(v) ==
    IF DOMAIN v = {"b"} THEN
        IF ~v.b THEN [ok |-> TRUE, val |-> ""] ELSE [ok |-> FALSE, val |-> ""]
    ELSE IF DOMAIN v = {"s"} THEN [ok |-> TRUE, val |-> v.s]
    ELSE [ok |-> FALSE, val |-> ""]

\* the parentCollection field is tagged omitempty: an empty reference is
\* left out before its MarshalJSON is consulted
MarshalCollectionData(d) ==
    [f \in {"name", "relations"}
           \cup (IF d.Key # "" THEN {"key"} ELSE {})
           \cup (IF d.Version # 0 THEN {"version"} ELSE {})
           \cup (IF d.ParentCollection # "" THEN {"parentCollection"} ELSE {})
       |-> CASE f = "name" -> [s |-> d.Name]
             [] f = "key" -> [s |-> d.Key]
             [] f = "version" -> [n |-> d.Version]
             [] f = "parentCollection" -> MarshalParentCollectionRef(d.ParentCollection)
             [] f = "relations" -> [o |-> <<>>]]

MarshalSearchData(d) ==
    [f \in {"name", "conditions"}
           \cup (IF d.Key # "" THEN {"key"} ELSE {})
           \cup (IF d.Version # 0 THEN {"version"} ELSE {})
       |-> CASE f = "name" -> [s |-> d.Name]
             [] f = "key" -> [s |-> d.Key]
             [] f = "version" -> [n |-> d.Version]
             [] f = "conditions" -> [l |-> d.Conditions]]

JSONBody(v) == [tag |-> "json", val |-> v]

\* n copies of x
Uniform(n, x) == [i \in 1 .. n |-> x]

\* the lists a caller passes: the short lists over S, and the uniform lists
\* of x around the batch limit
Lists(S, x) ==
    UNION {[1 .. n -> S] : n \in 0 .. MaxSeq}
    \cup {Uniform(n, x) : n \in (MaxBatch - 1) .. (MaxBatch + MaxOver)}

\* strings.Join
RECURSIVE Join(_, _)
Join(list, sep) ==
    IF list = <<>> THEN ""
    ELSE IF Len(list) = 1 THEN list[1]
    ELSE list[1] \o sep \o Join(Tail(list), sep)

-----------------------------------------------------------------------------
(* Transport *)

\* WriteRequest without the version header
WriteRequestNoVersionHeader(c, method, path, body, version) ==
    [method |-> method,
     url |-> c.BaseURL \o "/" \o c.LibraryType \o "/" \o c.LibraryID \o path,
     apiKey |-> c.APIKey,
     contentType |-> IF body # NilBody THEN "application/json" ELSE "",
     hasIUS |-> FALSE,
     ius |-> 0,
     ifNoneMatch |-> "",
     ifMatch |-> "",
     body |-> body,
     waited |-> c.rateLimiter]

\* the request doWriteRequest builds
WriteRequest(c, method, path, body, version) ==
    [method |-> method,
     url |-> c.BaseURL \o "/" \o c.LibraryType \o "/" \o c.LibraryID \o path,
     apiKey |-> c.APIKey,
     contentType |-> IF body # NilBody THEN "application/json" ELSE "",
     hasIUS |-> version > 0,
     ius |-> IF version > 0 THEN version ELSE 0,
     ifNoneMatch |-> "",
     ifMatch |-> "",
     body |-> body,
     waited |-> c.rateLimiter]

\* Exchange with the status test written > 400
ExchangeAbove400(d, req, reply) ==
    IF d THEN
        [sent |-> <<>>, got |-> <<>>, body |-> NilBody, resp |-> NilPtr,
         err |-> Errorf("error executing request")]
    ELSE IF reply.kind = "neterr" THEN
        [sent |-> <<req>>, got |-> <<reply>>, body |-> NilBody, resp |-> NilPtr,
         err |-> Errorf("error executing request")]
    ELSE IF reply.kind = "readerr" THEN
        [sent |-> <<req>>, got |-> <<reply>>, body |-> NilBody, resp |-> reply,
         err |-> Errorf("error reading response body")]
    ELSE IF reply.status > 400 THEN
        [sent |-> <<req>>, got |-> <<reply>>, body |-> reply.body, resp |-> reply,
         err |-> ErrorfStatus("API error", reply.status, reply.body)]
    ELSE
        [sent |-> <<req>>, got |-> <<reply>>, body |-> reply.body, resp |-> reply,
         err |-> NoErr]

\* Exchange in which a cancelled context is noticed only after the request
\* went out
ExchangeSendingWhenCancelled(d, req, reply) ==
    IF d THEN
        [sent |-> <<req>>, got |-> <<>>, body |-> NilBody, resp |-> NilPtr,
         err |-> Errorf("error executing request")]
    ELSE IF reply.kind = "neterr" THEN
        [sent |-> <<req>>, got |-> <<reply>>, body |-> NilBody, resp |-> NilPtr,
         err |-> Errorf("error executing request")]
    ELSE IF reply.kind = "readerr" THEN
        [sent |-> <<req>>, got |-> <<reply>>, body |-> NilBody, resp |-> reply,
         err |-> Errorf("error reading response body")]
    ELSE IF reply.status >= 400 THEN
        [sent |-> <<req>>, got |-> <<reply>>, body |-> reply.body, resp |-> reply,
         err |-> ErrorfStatus("API error", reply.status, reply.body)]
    ELSE
        [sent |-> <<req>>, got |-> <<reply>>, body |-> reply.body, resp |-> reply,
         err |-> NoErr]

\* what a transport function returns once httpClient.Do has been reached:
\* a cancelled context makes Do fail before anything is sent
Exchange(d, req, reply) ==
    IF d THEN
        [sent |-> <<>>, got |-> <<>>, body |-> NilBody, resp |-> NilPtr,
         err |-> Errorf("error executing request")]
    ELSE IF reply.kind = "neterr" THEN
        [sent |-> <<req>>, got |-> <<reply>>, body |-> NilBody, resp |-> NilPtr,
         err |-> Errorf("error executing request")]
    ELSE IF reply.kind = "readerr" THEN
        [sent |-> <<req>>, got |-> <<reply>>, body |-> NilBody, resp |-> reply,
         err |-> Errorf("error reading response body")]
    ELSE IF reply.status >= 400 THEN
        [sent |-> <<req>>, got |-> <<reply>>, body |-> reply.body, resp |-> reply,
         err |-> ErrorfStatus("API error", reply.status, reply.body)]
    ELSE
        [sent |-> <<req>>, got |-> <<reply>>, body |-> reply.body, resp |-> reply,
         err |-> NoErr]

RateLimiterError ==
    [sent |-> <<>>, got |-> <<>>, body |-> NilBody, resp |-> NilPtr,
     err |-> Errorf("rate limiter error")]

doWriteRequest(c, d, method, path, body, version, reply) ==
    IF c.rateLimiter /\ d THEN RateLimiterError
    ELSE Exchange(d, WriteRequest(c, method, path, body, version), reply)

\* the request doRequest builds; query is buildQueryString(params)
ReadRequest(c, method, path, query) ==
    [method |-> method,
     url |-> c.BaseURL \o "/" \o c.LibraryType \o "/" \o c.LibraryID \o path \o query,
     apiKey |-> c.APIKey,
     contentType |-> "",
     hasIUS |-> FALSE,
     ius |-> 0,
     ifNoneMatch |-> "",
     ifMatch |-> "",
     body |-> NilBody,
     waited |-> c.rateLimiter]

\* doRequest sending a failed request a second time when the client has a
\* RetryConfig
doRequestRetrying(c, d, method, path, query, reply) ==
    IF c.rateLimiter /\ d THEN RateLimiterError
    ELSE LET w == Exchange(d, ReadRequest(c, method, path, query), reply)
         IN  IF c.RetryConfig # NilPtr /\ w.err # NoErr /\ w.sent # <<>>
             THEN [w EXCEPT !.sent = @ \o @, !.got = @ \o @]
             ELSE w

doRequest(c, d, method, path, query, reply) ==
    IF c.rateLimiter /\ d THEN RateLimiterError
    ELSE Exchange(d, ReadRequest(c, method, path, query), reply)

\* FileAuthRequest without the If-None-Match header
FileAuthRequestNoIfNoneMatch(c, path, body, ifNoneMatch, ifMatch) ==
    [method |-> "POST",
     url |-> c.BaseURL \o "/" \o c.LibraryType \o "/" \o c.LibraryID \o path,
     apiKey |-> c.APIKey,
     contentType |-> "application/x-www-form-urlencoded",
     hasIUS |-> FALSE,
     ius |-> 0,
     ifNoneMatch |-> "",
     ifMatch |-> ifMatch,
     body |-> body,
     waited |-> c.rateLimiter]

\* the request doFileAuthRequest builds
FileAuthRequest(c, path, body, ifNoneMatch, ifMatch) ==
    [method |-> "POST",
     url |-> c.BaseURL \o "/" \o c.LibraryType \o "/" \o c.LibraryID \o path,
     apiKey |-> c.APIKey,
     contentType |-> "application/x-www-form-urlencoded",
     hasIUS |-> FALSE,
     ius |-> 0,
     ifNoneMatch |-> ifNoneMatch,
     ifMatch |-> IF ifNoneMatch # "" THEN "" ELSE ifMatch,
     body |-> body,
     waited |-> c.rateLimiter]

doFileAuthRequest(c, d, path, body, ifNoneMatch, ifMatch, reply) ==
    IF c.rateLimiter /\ d THEN RateLimiterError
    ELSE Exchange(d, FileAuthRequest(c, path, body, ifNoneMatch, ifMatch), reply)

-----------------------------------------------------------------------------
(* What a public operation hands back to the action that runs it *)

\* returned before any request was made
Fail(err, a) ==
    [sent |-> <<>>, got |-> <<>>, err |-> err, value |-> NilPtr, after |-> a]

\* returned after the exchange w
Ret(w, err, value, a) ==
    [sent |-> w.sent, got |-> w.got, err |-> err, value |-> value, after |-> a]

-----------------------------------------------------------------------------
(* Query strings. A text is a sequence of chunks: a chunk is a word of
   unreserved characters, or one reserved character *)

\* the string a text stands for
Text(t) == Join(t, "")

\* the zero QueryParams
NoParams ==
    [Limit |-> 0, Start |-> 0, Sort |-> <<>>, Format |-> <<>>, Include |-> <<>>,
     Style |-> <<>>, Q |-> <<>>, QMode |-> <<>>, Tag |-> <<>>, ItemKey |-> <<>>,
     ItemType |-> <<>>, Since |-> 0, Extra |-> <<>>]

\* joinWithOR with "," in place of " || "
joinWithComma(values) ==
    IF Len(values) = 0 THEN <<>>
    ELSE LET RECURSIVE loop(_, _)
             loop(joined, i) ==
                 IF i > Len(values) THEN joined
                 ELSE loop(joined \o <<",">> \o values[i], i + 1)
         IN  loop(values[1], 2)

joinWithOR(values) ==
    IF Len(values) = 0 THEN <<>>
    ELSE LET RECURSIVE loop(_, _)
             loop(joined, i) ==
                 IF i > Len(values) THEN joined
                 ELSE loop(joined \o <<" ", "|", "|", " ">> \o values[i], i + 1)
         IN  loop(values[1], 2)

\* the url.Values buildQueryString fills: every key is Set, so it holds one
\* value; the entries of Extra are Set last
QueryValues(params) ==
    LET itemKeyValue ==
            LET RECURSIVE loop(_, _)
                loop(joined, i) ==
                    IF i > Len(params.ItemKey) THEN joined
                    ELSE loop(joined \o <<",">> \o params.ItemKey[i], i + 1)
            IN  loop(params.ItemKey[1], 2)
        keys == (IF params.Limit > 0 THEN {"limit"} ELSE {})
                \cup (IF params.Start > 0 THEN {"start"} ELSE {})
                \cup (IF params.Sort # <<>> THEN {"sort"} ELSE {})
                \cup (IF params.Format # <<>> THEN {"format"} ELSE {})
                \cup (IF params.Include # <<>> THEN {"include"} ELSE {})
                \cup (IF params.Style # <<>> THEN {"style"} ELSE {})
                \cup (IF params.Q # <<>> THEN {"q"} ELSE {})
                \cup (IF params.QMode # <<>> THEN {"qmode"} ELSE {})
                \cup (IF params.Since > 0 THEN {"since"} ELSE {})
                \cup (IF Len(params.Tag) > 0 THEN {"tag"} ELSE {})
                \cup (IF Len(params.ItemKey) > 0 THEN {"itemKey"} ELSE {})
                \cup (IF Len(params.ItemType) > 0 THEN {"itemType"} ELSE {})
    IN  [k \in keys \cup DOMAIN params.Extra |->
            IF k \in DOMAIN params.Extra THEN params.Extra[k]
            ELSE CASE k = "limit" -> Itoa(params.Limit)
                   [] k = "start" -> Itoa(params.Start)
                   [] k = "sort" -> params.Sort
                   [] k = "format" -> params.Format
                   [] k = "include" -> params.Include
                   [] k = "style" -> params.Style
                   [] k = "q" -> params.Q
                   [] k = "qmode" -> params.QMode
                   [] k = "since" -> Itoa(params.Since)
                   [] k = "tag" -> joinWithOR(params.Tag)
                   [] k = "itemKey" -> itemKeyValue
                   [] k = "itemType" -> joinWithOR(params.ItemType)]

\* QueryEscape leaving every chunk as it is
QueryEscapeNothing(t) == t

\* url.QueryEscape, chunk by chunk: a word is kept, a space becomes "+",
\* any other reserved character its percent code
QueryEscape(t) ==
    [i \in 1 .. Len(t) |->
        CASE t[i] = " " -> "+"
          [] t[i] = "|" -> "%7C"
          [] t[i] = "," -> "%2C"
          [] t[i] = "=" -> "%3D"
          [] t[i] = "&" -> "%26"
          [] OTHER -> t[i]]

\* the parameter keys of the model in the order sort.Strings gives them
SortedKeys ==
    <<"custom", "format", "include", "itemKey", "itemType", "limit", "locale", "q",
      "qmode", "since", "sort", "start", "style", "tag">>

\* Encode writing the keys in the order buildQueryString sets them
EncodeInSetOrder(values) ==
    LET setOrder == <<"limit", "start", "sort", "format", "include", "style", "q", "qmode",
                      "since", "tag", "itemKey", "itemType", "custom", "locale">>
        keys == SelectSeq(setOrder, LAMBDA k : k \in DOMAIN values)
        RECURSIVE pairs(_)
        pairs(i) ==
            IF i > Len(keys) THEN <<>>
            ELSE (IF i > 1 THEN <<"&">> ELSE <<>>)
                 \o QueryEscape(<<keys[i]>>) \o <<"=">> \o QueryEscape(values[keys[i]])
                 \o pairs(i + 1)
    IN  pairs(1)

\* url.Values.Encode: key=value pairs in sorted key order, joined by "&"
Encode(values) ==
    LET keys == SelectSeq(SortedKeys, LAMBDA k : k \in DOMAIN values)
        RECURSIVE pairs(_)
        pairs(i) ==
            IF i > Len(keys) THEN <<>>
            ELSE (IF i > 1 THEN <<"&">> ELSE <<>>)
                 \o QueryEscape(<<keys[i]>>) \o <<"=">> \o QueryEscape(values[keys[i]])
                 \o pairs(i + 1)
    IN  pairs(1)

buildQueryString(params) ==
    IF params = NilPtr THEN <<>>
    ELSE LET query == Encode(QueryValues(params))
         IN  IF query # <<>> THEN <<"?">> \o query ELSE <<>>

-----------------------------------------------------------------------------
(* Reads (called with nil parameters, as the write operations call them) *)

\* json.Unmarshal(body, &item)
UnmarshalItem(body) ==
    IF body.tag = "item" THEN [ok |-> TRUE, val |-> [tag |-> "item", item |-> body.item]]
    ELSE [ok |-> FALSE, val |-> NilPtr]

Item(c, d, itemKey, reply) ==
    LET w == doRequest(c, d, "GET", "/items/" \o itemKey, "", reply)
    IN  IF w.err # NoErr THEN Ret(w, w.err, NilPtr, [key |-> itemKey])
        ELSE LET u == UnmarshalItem(w.body)
             IN  IF ~u.ok THEN Ret(w, Errorf("error unmarshaling item"), NilPtr, [key |-> itemKey])
                 ELSE Ret(w, NoErr, u.val, [key |-> itemKey])

\* a count or a version number, as the operations that return int hand it back
IntValue(n) == [tag |-> "int", n |-> n]

LastModifiedVersion(c, d, reply) ==
    LET w == doRequest(c, d, "GET", "/items", "?limit=1", reply)
    IN  IF w.err # NoErr THEN Ret(w, w.err, IntValue(0), NoArgs)
        ELSE IF w.resp.lmv = <<>> THEN
            Ret(w, Errorf("Last-Modified-Version header not found"), IntValue(0), NoArgs)
        ELSE LET v == Atoi(w.resp.lmv)
             IN  IF ~v.ok THEN
                     Ret(w, Errorf("error parsing Last-Modified-Version"), IntValue(0), NoArgs)
                 ELSE Ret(w, NoErr, IntValue(v.val), NoArgs)

\* the request Groups builds itself: no library prefix, no rate limiter
GroupsRequest(c) ==
    [method |-> "GET",
     url |-> c.BaseURL \o "/users/" \o c.LibraryID \o "/groups",
     apiKey |-> c.APIKey,
     contentType |-> "",
     hasIUS |-> FALSE,
     ius |-> 0,
     ifNoneMatch |-> "",
     ifMatch |-> "",
     body |-> NilBody,
     waited |-> FALSE]

GroupsBody == [tag |-> "groups", groups |-> <<[id |-> 1, name |-> "Lab"]>>]

\* Groups without the test of the library type
GroupsOfAnyLibrary(c, d, reply) ==
    LET w == Exchange(d, GroupsRequest(c), reply)
    IN  IF w.err # NoErr THEN Ret(w, w.err, NilPtr, NoArgs)
        ELSE IF w.body.tag # "groups" THEN
            Ret(w, Errorf("error unmarshaling groups"), NilPtr, NoArgs)
        ELSE Ret(w, NoErr, w.body, NoArgs)

Groups(c, d, reply) ==
    IF c.LibraryType # "users" THEN Fail(Errorf("groups() requires user library type"), NoArgs)
    ELSE
        LET w == Exchange(d, GroupsRequest(c), reply)
        IN  IF w.err # NoErr THEN Ret(w, w.err, NilPtr, NoArgs)
            ELSE IF w.body.tag # "groups" THEN
                Ret(w, Errorf("error unmarshaling groups"), NilPtr, NoArgs)
            ELSE Ret(w, NoErr, w.body, NoArgs)

\* the filters, sorts and page bounds the callers of the model pass
QueryParamsChoices ==
    {NilPtr}
    \cup {[NoParams EXCEPT !.Limit = limit, !.Start = page[1], !.Since = page[2],
                           !.Sort = sort, !.Tag = tag, !.ItemKey = itemKey,
                           !.ItemType = itemType, !.Extra = extra] :
             limit \in {-1, 0, 10},
             page \in {<<0, 0>>, <<20, 0>>, <<0, 100>>, <<-1, -1>>},
             sort \in {<<>>, <<"title">>},
             tag \in {<<>>, <<<<"tag1">>>>, <<<<"tag1">>, <<"tag2">>>>,
                      <<<<"to", " ", "read">>, <<"tag1">>>>},
             itemKey \in {<<>>, <<<<"KEY1">>, <<"KEY2">>>>},
             itemType \in {<<>>, <<<<"journalArticle">>, <<"book">>, <<"-annotation">>>>},
             extra \in {<<>>, [k \in {"custom"} |-> <<"value">>],
                        [k \in {"locale", "custom"} |-> <<"value">>]}}

ItemsBody ==
    [tag |-> "items", items |-> <<ServerItem("ABCD1234", MaxVersion, "Updated Once", <<>>)>>]

DeletedBody ==
    [tag |-> "deleted", Items |-> <<"ABCD1234">>, Collections |-> <<>>,
     Searches |-> <<>>, Tags |-> <<>>]

ListReplies == {NetErr} \cup RepliesOf({200, 400}, {JunkBody, ItemsBody, DeletedBody}, {<<>>})

Items(c, d, params, reply) ==
    LET w == doRequest(c, d, "GET", "/items", Text(buildQueryString(params)), reply)
        a == [params |-> params]
    IN  IF w.err # NoErr THEN Ret(w, w.err, NilPtr, a)
        ELSE IF w.body.tag # "items" THEN
            Ret(w, Errorf("error unmarshaling items"), NilPtr, a)
        ELSE Ret(w, NoErr, w.body, a)

\* Deleted writing the since parameter itself, whatever its value
DeletedSinceAlways(c, d, since, reply) ==
    LET w == doRequest(c, d, "GET", "/deleted", "?since=" \o Text(Itoa(since)), reply)
        a == [since |-> since]
    IN  IF w.err # NoErr THEN Ret(w, w.err, NilPtr, a)
        ELSE IF w.body.tag # "deleted" THEN
            Ret(w, Errorf("error unmarshaling deleted content"), NilPtr, a)
        ELSE Ret(w, NoErr, w.body, a)

Deleted(c, d, since, reply) ==
    LET params == [NoParams EXCEPT !.Since = since]
        w == doRequest(c, d, "GET", "/deleted", Text(buildQueryString(params)), reply)
        a == [since |-> since]
    IN  IF w.err # NoErr THEN Ret(w, w.err, NilPtr, a)
        ELSE IF w.body.tag # "deleted" THEN
            Ret(w, Errorf("error unmarshaling deleted content"), NilPtr, a)
        ELSE Ret(w, NoErr, w.body, a)

-----------------------------------------------------------------------------
(* Creates and batch updates *)

\* json.Unmarshal(respBody, &writeResp): every "failed" entry must be an
\* object with a code and a message
UnmarshalWriteResponse(body) ==
    IF body.tag = "wr"
       /\ \A i \in DOMAIN body.failed : DOMAIN body.failed[i] = {"code", "message"}
    THEN [ok |-> TRUE,
          val |-> [tag |-> "WriteResponse", Success |-> body.success,
                   Unchanged |-> body.unchanged, Failed |-> body.failed]]
    ELSE [ok |-> FALSE, val |-> NilPtr]

\* WriteResult turning a response with failed entries into an error
WriteResultFailedIsError(w, a) ==
    IF w.err # NoErr THEN Ret(w, w.err, NilPtr, a)
    ELSE IF w.resp.status # 200 THEN
        Ret(w, ErrorfStatus("unexpected status code", w.resp.status, w.body), NilPtr, a)
    ELSE LET u == UnmarshalWriteResponse(w.body)
         IN  IF ~u.ok THEN Ret(w, Errorf("error unmarshaling response"), NilPtr, a)
             ELSE IF DOMAIN u.val.Failed # {} THEN
                 Ret(w, Errorf("write failed"), NilPtr, a)
             ELSE Ret(w, NoErr, u.val, a)

\* the tail shared by the creates and the batch updates, after doWriteRequest
WriteResult(w, a) ==
    IF w.err # NoErr THEN Ret(w, w.err, NilPtr, a)
    ELSE IF w.resp.status # 200 THEN
        Ret(w, ErrorfStatus("unexpected status code", w.resp.status, w.body), NilPtr, a)
    ELSE LET u == UnmarshalWriteResponse(w.body)
         IN  IF ~u.ok THEN Ret(w, Errorf("error unmarshaling response"), NilPtr, a)
             ELSE Ret(w, NoErr, u.val, a)

BatchData == {[Key |-> "", Version |-> 0], [Key |-> "EFGH5678", Version |-> 2]}

BatchItems ==
    {[Key |-> k, Version |-> v,
      Data |-> [Key |-> x.Key, Version |-> x.Version, ItemType |-> "book",
                Title |-> "Updated Once", Tags |-> <<>>]] :
        k \in Keys, v \in {0, 1}, x \in BatchData}

BatchCollections ==
    {[Key |-> k, Version |-> v,
      Data |-> [Key |-> x.Key, Version |-> x.Version, Name |-> "Papers",
                ParentCollection |-> ""]] :
        k \in Keys, v \in {0, 1}, x \in BatchData}

BatchSearches ==
    {[Key |-> k, Version |-> v,
      Data |-> [Key |-> x.Key, Version |-> x.Version, Name |-> "Recent",
                Conditions |-> <<>>]] :
        k \in Keys, v \in {0, 1}, x \in BatchData}

CreateItems(c, d, items, reply) ==
    IF Len(items) = 0 THEN Fail(Errorf("no items provided"), items)
    ELSE IF Len(items) > MaxBatch THEN Fail(Errorf("maximum 50 items per request"), items)
    ELSE
        LET itemsData == [i \in 1 .. Len(items) |-> MarshalItemData(items[i].Data)]
            body == JSONBody(itemsData)
        IN  WriteResult(doWriteRequest(c, d, "POST", "/items", body, 0, reply), items)

CreateCollections(c, d, collections, reply) ==
    IF Len(collections) = 0 THEN Fail(Errorf("no collections provided"), collections)
    ELSE IF Len(collections) > MaxBatch THEN
        Fail(Errorf("maximum 50 collections per request"), collections)
    ELSE
        LET collectionsData ==
                [i \in 1 .. Len(collections) |-> MarshalCollectionData(collections[i].Data)]
            body == JSONBody(collectionsData)
        IN  WriteResult(doWriteRequest(c, d, "POST", "/collections", body, 0, reply),
                        collections)

CreateSearches(c, d, searches, reply) ==
    IF Len(searches) = 0 THEN Fail(Errorf("no searches provided"), searches)
    ELSE IF Len(searches) > MaxBatch THEN
        Fail(Errorf("maximum 50 searches per request"), searches)
    ELSE
        LET searchesData == [i \in 1 .. Len(searches) |-> MarshalSearchData(searches[i].Data)]
            body == JSONBody(searchesData)
        IN  WriteResult(doWriteRequest(c, d, "POST", "/searches", body, 0, reply), searches)

\* the resolution with the data-level key taking precedence over the envelope's
ResolveKeyDataFirst(e) == IF e.Data.Key = "" THEN e.Key ELSE e.Data.Key

\* key := item.Key; if key == "" { key = item.Data.Key }
ResolveKey(e) == IF e.Key = "" THEN e.Data.Key ELSE e.Key
\* version := item.Version; if version == 0 { version = item.Data.Version }
ResolveVersion(e) == IF e.Version = 0 THEN e.Data.Version ELSE e.Version

\* data["key"] = key; data["version"] = version
WithKeyVersion(data, key, version) ==
    [f \in DOMAIN data \cup {"key", "version"} |->
        IF f = "key" THEN [s |-> key]
        ELSE IF f = "version" THEN [n |-> version]
        ELSE data[f]]

\* the first element the loop rejects, or 0
FirstMissing(list) ==
    LET bad == {i \in 1 .. Len(list) :
                    ResolveKey(list[i]) = "" \/ ResolveVersion(list[i]) = 0}
    IN  IF bad = {} THEN 0 ELSE CHOOSE i \in bad : \A j \in bad : i <= j

UpdateItems(c, d, items, reply) ==
    IF Len(items) = 0 THEN Fail(Errorf("no items provided"), items)
    ELSE IF Len(items) > MaxBatch THEN Fail(Errorf("maximum 50 items per request"), items)
    ELSE
        LET m == FirstMissing(items)
        IN  IF m # 0 /\ ResolveKey(items[m]) = "" THEN
                Fail(Errorf("item " \o ToString(m - 1) \o " missing key"), items)
            ELSE IF m # 0 THEN
                Fail(Errorf("item " \o ToString(m - 1) \o " missing version"), items)
            ELSE
                LET itemsData ==
                        [i \in 1 .. Len(items) |->
                            WithKeyVersion(MarshalItemData(items[i].Data),
                                           ResolveKey(items[i]), ResolveVersion(items[i]))]
                    body == JSONBody(itemsData)
                IN  WriteResult(doWriteRequest(c, d, "POST", "/items", body, 0, reply), items)

UpdateCollections(c, d, collections, reply) ==
    IF Len(collections) = 0 THEN Fail(Errorf("no collections provided"), collections)
    ELSE IF Len(collections) > MaxBatch THEN
        Fail(Errorf("maximum 50 collections per request"), collections)
    ELSE
        LET m == FirstMissing(collections)
        IN  IF m # 0 /\ ResolveKey(collections[m]) = "" THEN
                Fail(Errorf("collection " \o ToString(m - 1) \o " missing key"), collections)
            ELSE IF m # 0 THEN
                Fail(Errorf("collection " \o ToString(m - 1) \o " missing version"),
                     collections)
            ELSE
                LET collectionsData ==
                        [i \in 1 .. Len(collections) |->
                            WithKeyVersion(MarshalCollectionData(collections[i].Data),
                                           ResolveKey(collections[i]),
                                           ResolveVersion(collections[i]))]
                    body == JSONBody(collectionsData)
                IN  WriteResult(
                        doWriteRequest(c, d, "POST", "/collections", body, 0, reply),
                        collections)

-----------------------------------------------------------------------------
(* Single updates *)

ItemChoices ==
    [Key : Keys, Version : Versions,
     Data : [Key : Keys, Version : Versions, ItemType : {"book"},
             Title : Titles, Tags : {<<>>}]]

\* UpdateItem taking the data-level version before the envelope's
UpdateItemDataVersionFirst(c, d, item, reply) ==
    IF item = NilPtr THEN Fail(Errorf("item cannot be nil"), item)
    ELSE IF item.Key = "" /\ item.Data.Key = "" THEN
        Fail(Errorf("item key is required"), item)
    ELSE
        LET key == IF item.Key = "" THEN item.Data.Key ELSE item.Key
            version == IF item.Data.Version = 0 THEN item.Version ELSE item.Data.Version
            body == JSONBody(MarshalItemData(item.Data))
            w == doWriteRequest(c, d, "PATCH", "/items/" \o key, body, version, reply)
        IN  IF w.err # NoErr THEN Ret(w, w.err, NilPtr, item)
            ELSE IF w.resp.status # 204 /\ w.resp.status # 200 THEN
                Ret(w, ErrorfStatus("unexpected status code", w.resp.status, w.body),
                    NilPtr, item)
            ELSE Ret(w, NoErr, NilPtr, item)

UpdateItem(c, d, item, reply) ==
    IF item = NilPtr THEN Fail(Errorf("item cannot be nil"), item)
    ELSE IF item.Key = "" /\ item.Data.Key = "" THEN
        Fail(Errorf("item key is required"), item)
    ELSE
        LET key == IF item.Key = "" THEN item.Data.Key ELSE item.Key
            version == IF item.Version = 0 THEN item.Data.Version ELSE item.Version
            body == JSONBody(MarshalItemData(item.Data))
            w == doWriteRequest(c, d, "PATCH", "/items/" \o key, body, version, reply)
        IN  IF w.err # NoErr THEN Ret(w, w.err, NilPtr, item)
            ELSE IF w.resp.status # 204 /\ w.resp.status # 200 THEN
                Ret(w, ErrorfStatus("unexpected status code", w.resp.status, w.body),
                    NilPtr, item)
            ELSE Ret(w, NoErr, NilPtr, item)

Collections ==
    [Key : Keys, Version : Versions,
     Data : [Key : Keys, Version : Versions, Name : {"Papers"},
             ParentCollection : {"", "PARENT01"}]]

UpdateCollection(c, d, collection, reply) ==
    IF collection = NilPtr THEN Fail(Errorf("collection cannot be nil"), collection)
    ELSE IF collection.Key = "" /\ collection.Data.Key = "" THEN
        Fail(Errorf("collection key is required"), collection)
    ELSE
        LET key == IF collection.Key = "" THEN collection.Data.Key ELSE collection.Key
            version == IF collection.Version = 0 THEN collection.Data.Version
                       ELSE collection.Version
            body == JSONBody(MarshalCollectionData(collection.Data))
            w == doWriteRequest(c, d, "PATCH", "/collections/" \o key, body, version, reply)
        IN  IF w.err # NoErr THEN Ret(w, w.err, NilPtr, collection)
            ELSE IF w.resp.status # 204 /\ w.resp.status # 200 THEN
                Ret(w, ErrorfStatus("unexpected status code", w.resp.status, w.body),
                    NilPtr, collection)
            ELSE Ret(w, NoErr, NilPtr, collection)

Searches ==
    [Key : Keys, Version : Versions,
     Data : [Key : Keys, Version : Versions, Name : {"Recent"}, Conditions : {<<>>}]]

UpdateSearch(c, d, search, reply) ==
    IF search = NilPtr THEN Fail(Errorf("search cannot be nil"), search)
    ELSE IF search.Key = "" /\ search.Data.Key = "" THEN
        Fail(Errorf("search key is required"), search)
    ELSE
        LET key == IF search.Key = "" THEN search.Data.Key ELSE search.Key
            version == IF search.Version = 0 THEN search.Data.Version ELSE search.Version
            body == JSONBody(MarshalSearchData(search.Data))
            w == doWriteRequest(c, d, "PATCH", "/searches/" \o key, body, version, reply)
        IN  IF w.err # NoErr THEN Ret(w, w.err, NilPtr, search)
            ELSE IF w.resp.status # 204 /\ w.resp.status # 200 THEN
                Ret(w, ErrorfStatus("unexpected status code", w.resp.status, w.body),
                    NilPtr, search)
            ELSE Ret(w, NoErr, NilPtr, search)

-----------------------------------------------------------------------------
(* Single deletes *)

DeleteItem(c, d, itemKey, version, reply) ==
    IF itemKey = "" THEN Fail(Errorf("item key is required"), [key |-> itemKey, version |-> version])
    ELSE IF version = 0 THEN
        Fail(Errorf("version is required for delete operations"), [key |-> itemKey, version |-> version])
    ELSE
        LET w == doWriteRequest(c, d, "DELETE", "/items/" \o itemKey, NilBody, version, reply)
        IN  IF w.err # NoErr THEN Ret(w, w.err, NilPtr, [key |-> itemKey, version |-> version])
            ELSE IF w.resp.status # 204 THEN
                Ret(w, ErrorfStatus("unexpected status code", w.resp.status, w.body),
                    NilPtr, [key |-> itemKey, version |-> version])
            ELSE Ret(w, NoErr, NilPtr, [key |-> itemKey, version |-> version])

\* DeleteCollection accepting every status below 400
DeleteCollectionAnyStatus(c, d, collectionKey, version, reply) ==
    IF collectionKey = "" THEN
        Fail(Errorf("collection key is required"), [key |-> collectionKey, version |-> version])
    ELSE IF version = 0 THEN
        Fail(Errorf("version is required for delete operations"), [key |-> collectionKey, version |-> version])
    ELSE
        LET w == doWriteRequest(c, d, "DELETE", "/collections/" \o collectionKey,
                                NilBody, version, reply)
        IN  IF w.err # NoErr THEN Ret(w, w.err, NilPtr, [key |-> collectionKey, version |-> version])
            ELSE Ret(w, NoErr, NilPtr, [key |-> collectionKey, version |-> version])

DeleteCollection(c, d, collectionKey, version, reply) ==
    IF collectionKey = "" THEN
        Fail(Errorf("collection key is required"), [key |-> collectionKey, version |-> version])
    ELSE IF version = 0 THEN
        Fail(Errorf("version is required for delete operations"), [key |-> collectionKey, version |-> version])
    ELSE
        LET w == doWriteRequest(c, d, "DELETE", "/collections/" \o collectionKey,
                                NilBody, version, reply)
        IN  IF w.err # NoErr THEN Ret(w, w.err, NilPtr, [key |-> collectionKey, version |-> version])
            ELSE IF w.resp.status # 204 THEN
                Ret(w, ErrorfStatus("unexpected status code", w.resp.status, w.body),
                    NilPtr, [key |-> collectionKey, version |-> version])
            ELSE Ret(w, NoErr, NilPtr, [key |-> collectionKey, version |-> version])

DeleteSearch(c, d, searchKey, version, reply) ==
    IF searchKey = "" THEN Fail(Errorf("search key is required"), [key |-> searchKey, version |-> version])
    ELSE IF version = 0 THEN
        Fail(Errorf("version is required for delete operations"), [key |-> searchKey, version |-> version])
    ELSE
        LET w == doWriteRequest(c, d, "DELETE", "/searches/" \o searchKey,
                                NilBody, version, reply)
        IN  IF w.err # NoErr THEN Ret(w, w.err, NilPtr, [key |-> searchKey, version |-> version])
            ELSE IF w.resp.status # 204 THEN
                Ret(w, ErrorfStatus("unexpected status code", w.resp.status, w.body),
                    NilPtr, [key |-> searchKey, version |-> version])
            ELSE Ret(w, NoErr, NilPtr, [key |-> searchKey, version |-> version])

-----------------------------------------------------------------------------
(* Batch deletes *)

KeyLists == Lists(Keys, "ABCD1234")

\* DeleteItems with the size test written >= 50
DeleteItemsOffByOne(c, d, itemKeys, version, reply) ==
    IF Len(itemKeys) = 0 THEN Fail(Errorf("no item keys provided"), [keys |-> itemKeys, version |-> version])
    ELSE IF Len(itemKeys) >= MaxBatch THEN
        Fail(Errorf("maximum 50 items per request"), [keys |-> itemKeys, version |-> version])
    ELSE IF version = 0 THEN
        Fail(Errorf("version is required for delete operations"), [keys |-> itemKeys, version |-> version])
    ELSE
        LET path == "/items?itemKey=" \o Join(itemKeys, ",")
            w == doWriteRequest(c, d, "DELETE", path, NilBody, version, reply)
        IN  IF w.err # NoErr THEN Ret(w, w.err, NilPtr, [keys |-> itemKeys, version |-> version])
            ELSE IF w.resp.status # 204 THEN
                Ret(w, ErrorfStatus("unexpected status code", w.resp.status, w.body),
                    NilPtr, [keys |-> itemKeys, version |-> version])
            ELSE Ret(w, NoErr, NilPtr, [keys |-> itemKeys, version |-> version])

DeleteItems(c, d, itemKeys, version, reply) ==
    IF Len(itemKeys) = 0 THEN Fail(Errorf("no item keys provided"), [keys |-> itemKeys, version |-> version])
    ELSE IF Len(itemKeys) > MaxBatch THEN
        Fail(Errorf("maximum 50 items per request"), [keys |-> itemKeys, version |-> version])
    ELSE IF version = 0 THEN
        Fail(Errorf("version is required for delete operations"), [keys |-> itemKeys, version |-> version])
    ELSE
        LET path == "/items?itemKey=" \o Join(itemKeys, ",")
            w == doWriteRequest(c, d, "DELETE", path, NilBody, version, reply)
        IN  IF w.err # NoErr THEN Ret(w, w.err, NilPtr, [keys |-> itemKeys, version |-> version])
            ELSE IF w.resp.status # 204 THEN
                Ret(w, ErrorfStatus("unexpected status code", w.resp.status, w.body),
                    NilPtr, [keys |-> itemKeys, version |-> version])
            ELSE Ret(w, NoErr, NilPtr, [keys |-> itemKeys, version |-> version])

DeleteCollections(c, d, collectionKeys, version, reply) ==
    IF Len(collectionKeys) = 0 THEN
        Fail(Errorf("no collection keys provided"), [keys |-> collectionKeys, version |-> version])
    ELSE IF Len(collectionKeys) > MaxBatch THEN
        Fail(Errorf("maximum 50 collections per request"), [keys |-> collectionKeys, version |-> version])
    ELSE IF version = 0 THEN
        Fail(Errorf("version is required for delete operations"), [keys |-> collectionKeys, version |-> version])
    ELSE
        LET path == "/collections?collectionKey=" \o Join(collectionKeys, ",")
            w == doWriteRequest(c, d, "DELETE", path, NilBody, version, reply)
        IN  IF w.err # NoErr THEN Ret(w, w.err, NilPtr, [keys |-> collectionKeys, version |-> version])
            ELSE IF w.resp.status # 204 THEN
                Ret(w, ErrorfStatus("unexpected status code", w.resp.status, w.body),
                    NilPtr, [keys |-> collectionKeys, version |-> version])
            ELSE Ret(w, NoErr, NilPtr, [keys |-> collectionKeys, version |-> version])

DeleteSearches(c, d, searchKeys, version, reply) ==
    IF Len(searchKeys) = 0 THEN
        Fail(Errorf("no search keys provided"), [keys |-> searchKeys, version |-> version])
    ELSE IF Len(searchKeys) > MaxBatch THEN
        Fail(Errorf("maximum 50 searches per request"), [keys |-> searchKeys, version |-> version])
    ELSE IF version = 0 THEN
        Fail(Errorf("version is required for delete operations"), [keys |-> searchKeys, version |-> version])
    ELSE
        LET path == "/searches?searchKey=" \o Join(searchKeys, ",")
            w == doWriteRequest(c, d, "DELETE", path, NilBody, version, reply)
        IN  IF w.err # NoErr THEN Ret(w, w.err, NilPtr, [keys |-> searchKeys, version |-> version])
            ELSE IF w.resp.status # 204 THEN
                Ret(w, ErrorfStatus("unexpected status code", w.resp.status, w.body),
                    NilPtr, [keys |-> searchKeys, version |-> version])
            ELSE Ret(w, NoErr, NilPtr, [keys |-> searchKeys, version |-> version])

TagNames == {"tag1", "tag2"}
TagLists == Lists(TagNames, "tag1")

\* copy(tags, encodedTags) copies the fresh (all "") slice over the caller's
\* tags; the path is built from the fresh slice
DeleteTags(c, d, version, tags, reply) ==
    IF Len(tags) = 0 THEN Fail(Errorf("no tags provided"), [version |-> version, tags |-> tags])
    ELSE IF version = 0 THEN
        Fail(Errorf("version is required for delete operations"), [version |-> version, tags |-> tags])
    ELSE
        LET encodedTags == Uniform(Len(tags), "")
            tagsAfter == encodedTags
            path == "/tags?tag=" \o Join(encodedTags, "&tag=")
            w == doWriteRequest(c, d, "DELETE", path, NilBody, version, reply)
        IN  IF w.err # NoErr THEN Ret(w, w.err, NilPtr, [version |-> version, tags |-> tagsAfter])
            ELSE IF w.resp.status # 204 THEN
                Ret(w, ErrorfStatus("unexpected status code", w.resp.status, w.body),
                    NilPtr, [version |-> version, tags |-> tagsAfter])
            ELSE Ret(w, NoErr, NilPtr, [version |-> version, tags |-> tagsAfter])

\* Tag{Tag: name}
NewTag(name) == [Tag |-> name, Type |-> 0]

\* the tag lists of the items a server returns to AddTags
FetchedTags ==
    {<<>>, <<[Tag |-> "tag1", Type |-> 1]>>,
     <<[Tag |-> "tag2", Type |-> 0], [Tag |-> "tag1", Type |-> 1]>>}

\* the tag names a caller passes to AddTags
NewTagLists == UNION {[1 .. n -> TagNames] : n \in 0 .. MaxSeq}

FetchReplies ==
    {NetErr}
    \cup RepliesOf({200, 400},
                   {JunkBody}
                   \cup {ItemBody(ServerItem("ABCD1234", MaxVersion, "Updated Once", ts)) :
                            ts \in FetchedTags},
                   {<<>>})

\* the second loop of AddTags: every requested name that the fetched item
\* did not carry is appended; existingTags is not extended on the way
RECURSIVE AppendMissing(_, _, _)
AppendMissing(itemTags, existingTags, tags) ==
    IF tags = <<>> THEN itemTags
    ELSE AppendMissing(IF Head(tags) \notin existingTags
                       THEN Append(itemTags, NewTag(Head(tags))) ELSE itemTags,
                       existingTags, Tail(tags))

\* WithTags raising the version of the item by one
WithTagsNextVersion(item, tags) ==
    LET existingTags == {item.Data.Tags[i].Tag : i \in DOMAIN item.Data.Tags}
    IN  [item EXCEPT !.Version = @ + 1, !.Data.Version = @ + 1,
                     !.Data.Tags = AppendMissing(item.Data.Tags, existingTags, tags)]

\* the item AddTags hands to UpdateItem: the fetched item with its tags
\* extended
WithTags(item, tags) ==
    LET existingTags == {item.Data.Tags[i].Tag : i \in DOMAIN item.Data.Tags}
    IN  [item EXCEPT !.Data.Tags = AppendMissing(item.Data.Tags, existingTags, tags)]

\* reply answers the fetch, reply2 the update
AddTags(c, d, itemKey, tags, reply, reply2) ==
    LET a == [key |-> itemKey, tags |-> tags]
    IN  IF itemKey = "" THEN Fail(Errorf("item key is required"), a)
        ELSE IF Len(tags) = 0 THEN Fail(Errorf("no tags provided"), a)
        ELSE LET fetched == Item(c, d, itemKey, reply)
             IN  IF fetched.err # NoErr THEN
                     Ret(fetched, Wrap("error fetching item", fetched.err), NilPtr, a)
                 ELSE LET u == UpdateItem(c, d, WithTags(fetched.value.item, tags), reply2)
                      IN  [sent |-> fetched.sent \o u.sent, got |-> fetched.got \o u.got,
                           err |-> u.err, value |-> NilPtr, after |-> a]

-----------------------------------------------------------------------------
(* The state machine *)

NoServer == [tag |-> "none"]
NoLocals == [tag |-> "none"]
NoCall == [op |-> "none", args |-> NoArgs, ok |-> FALSE]

Init ==
    /\ client \in Clients
    /\ ctxDone = FALSE
    /\ op = "none"
    /\ args = NoArgs
    /\ after = NoArgs
    /\ pc = "idle"
    /\ requests = <<>>
    /\ responses = <<>>
    /\ result = [err |-> NoErr, value |-> NilPtr]
    /\ up = NoLocals
    /\ server = NoServer
    /\ prev = NoCall

\* a call that makes at most one request runs from entry to return in one step
Return(name, a, d, out) ==
    /\ op' = name
    /\ args' = a
    /\ after' = out.after
    /\ ctxDone' = d
    /\ requests' = out.sent
    /\ responses' = out.got
    /\ result' = [err |-> out.err, value |-> out.value]
    /\ pc' = "done"
    /\ UNCHANGED <<client, up>>

CallUpdateItem ==
    /\ pc = "idle"
    /\ UNCHANGED <<server, prev>>
    /\ \E item \in ItemChoices \cup {NilPtr}, d \in BOOLEAN, reply \in PlainReplies :
        Return("UpdateItem", item, d, UpdateItem(client, d, item, reply))

CallDeleteItem ==
    /\ pc = "idle"
    /\ UNCHANGED <<server, prev>>
    /\ \E k \in Keys, v \in Versions, d \in BOOLEAN, reply \in PlainReplies :
        Return("DeleteItem", [key |-> k, version |-> v], d,
               DeleteItem(client, d, k, v, reply))

-----------------------------------------------------------------------------
(* UploadAttachment: one step per request *)

\* the local file system: one readable file
ReadFile(filepath) ==
    IF filepath = <<"tmp", "a.pdf">> THEN [ok |-> TRUE, data |-> "%PDF-1.4", size |-> 8]
    ELSE [ok |-> FALSE, data |-> "", size |-> 0]

\* filepath[strings.LastIndex(filepath, "/")+1:]
Basename(filepath) == filepath[Len(filepath)]

\* hex.EncodeToString(md5.Sum(fileData)): 32 hex digits, never empty
MD5Hex(data) == "md5:" \o data

\* the first string value the loop over resp.Success meets; the order of a
\* map iteration is not fixed
ExtractKeys(success) ==
    LET strs == {success[i].s : i \in {j \in DOMAIN success : "s" \in DOMAIN success[j]}}
    IN  IF strs = {} THEN {""} ELSE strs

\* resp.Failed["0"].Message: the zero FailedWrite when "0" is missing
FailedMessage(failed) == IF "0" \in DOMAIN failed THEN failed["0"].message ELSE ""

\* the call goes on to its next request
Step(next, locals, sent, got) ==
    /\ pc' = next
    /\ up' = locals
    /\ requests' = requests \o sent
    /\ responses' = responses \o got
    /\ UNCHANGED <<client, ctxDone, op, args, after, result, server, prev>>

\* Finish with a DELETE of the attachment item after a failure
FinishDeletingTheItem(sent, got, err, value) ==
    LET undo == err # NoErr /\ pc \in {"auth", "auth_retry", "upload", "register", "get"}
        delete == WriteRequest(client, "DELETE", "/items/" \o up.attachmentKey, NilBody, 0)
    IN  /\ pc' = "done"
        /\ requests' = requests \o sent \o (IF undo THEN <<delete>> ELSE <<>>)
        /\ responses' = responses \o got \o (IF undo THEN <<NetErr>> ELSE <<>>)
        /\ result' = [err |-> err, value |-> value]
        /\ UNCHANGED <<client, ctxDone, op, args, after, up, server, prev>>

\* the call returns
Finish(sent, got, err, value) ==
    /\ pc' = "done"
    /\ requests' = requests \o sent
    /\ responses' = responses \o got
    /\ result' = [err |-> err, value |-> value]
    /\ UNCHANGED <<client, ctxDone, op, args, after, up, server, prev>>

UploadArgs ==
    [parentItemKey : {"", "PARENT01"}, filepath : {<<"tmp", "a.pdf">>, <<"missing.pdf">>},
     filename : {"", "paper.pdf"}, contentType : {"application/pdf"}]

\* read the file, create the attachment item, take its key
UploadCreate ==
    /\ pc = "idle"
    /\ \E a \in UploadArgs, d \in BOOLEAN, reply \in StubReplies :
        LET file == ReadFile(a.filepath)
            filename == IF a.filename = "" THEN Basename(a.filepath) ELSE a.filename
            md5String == MD5Hex(file.data)
            attachment ==
                [Key |-> "", Version |-> 0,
                 Data |-> [ItemType |-> "attachment", LinkMode |-> "imported_file",
                           Title |-> filename, ContentType |-> a.contentType,
                           Filename |-> filename, MD5 |-> md5String, MTime |-> 1000,
                           ParentItem |-> a.parentItemKey]]
            cr == CreateItems(client, d, <<attachment>>, reply)
            locals == [filename |-> filename, md5String |-> md5String,
                       filesize |-> file.size, mtime |-> attachment.Data.MTime,
                       attachmentKey |-> "", auth |-> NilPtr, lastModified |-> <<>>]
        IN  /\ op' = "UploadAttachment"
            /\ args' = a
            /\ after' = a
            /\ ctxDone' = d
            /\ UNCHANGED <<client, server, prev>>
            /\ IF ~file.ok THEN
                    /\ pc' = "done" /\ up' = NoLocals
                    /\ requests' = <<>> /\ responses' = <<>>
                    /\ result' = [err |-> Errorf("error reading file"), value |-> NilPtr]
               ELSE IF cr.err # NoErr THEN
                    /\ pc' = "done" /\ up' = locals
                    /\ requests' = cr.sent /\ responses' = cr.got
                    /\ result' = [err |-> Wrap("error creating attachment item", cr.err),
                                  value |-> NilPtr]
               ELSE IF DOMAIN cr.value.Success = {} THEN
                    /\ pc' = "done" /\ up' = locals
                    /\ requests' = cr.sent /\ responses' = cr.got
                    /\ result' =
                         [err |-> IF DOMAIN cr.value.Failed # {}
                                  THEN Errorf("failed to create attachment: "
                                              \o FailedMessage(cr.value.Failed))
                                  ELSE Errorf("failed to create attachment: no success or error reported"),
                          value |-> NilPtr]
               ELSE \E key \in ExtractKeys(cr.value.Success) :
                    /\ pc' = "auth" /\ up' = [locals EXCEPT !.attachmentKey = key]
                    /\ requests' = cr.sent /\ responses' = cr.got
                    /\ result' = [err |-> NoErr, value |-> NilPtr]

\* the form-encoded body of the authorization request
AuthForm(l) ==
    [tag |-> "form", md5 |-> l.md5String, filename |-> l.filename,
     filesize |-> l.filesize, mtime |-> l.mtime]

FilePath(l) == "/items/" \o l.attachmentKey \o "/file"

\* Authorized without the test of "exists"
AuthorizedIgnoringExists(w) ==
    IF w.err # NoErr THEN
        Finish(w.sent, w.got, Wrap("error requesting upload authorization", w.err), NilPtr)
    ELSE IF w.body.tag # "auth" THEN
        Finish(w.sent, w.got, Errorf("error parsing auth response"), NilPtr)
    ELSE IF "s" \notin DOMAIN w.body.url THEN
        Finish(w.sent, w.got, Errorf("missing upload URL in auth response"), NilPtr)
    ELSE IF "o" \notin DOMAIN w.body.params THEN
        Finish(w.sent, w.got, Errorf("missing upload params in auth response"), NilPtr)
    ELSE
        Step("upload", [up EXCEPT !.auth = w.body, !.lastModified = w.resp.lmv],
             w.sent, w.got)

\* what follows an authorization exchange whose outcome stands
Authorized(w) ==
    IF w.err # NoErr THEN
        Finish(w.sent, w.got, Wrap("error requesting upload authorization", w.err), NilPtr)
    ELSE IF w.body.tag # "auth" THEN
        Finish(w.sent, w.got, Errorf("error parsing auth response"), NilPtr)
    ELSE IF "n" \in DOMAIN w.body.exists /\ w.body.exists.n = 1 THEN
        Step("get", [up EXCEPT !.auth = w.body, !.lastModified = w.resp.lmv], w.sent, w.got)
    ELSE IF "s" \notin DOMAIN w.body.url THEN
        Finish(w.sent, w.got, Errorf("missing upload URL in auth response"), NilPtr)
    ELSE IF "o" \notin DOMAIN w.body.params THEN
        Finish(w.sent, w.got, Errorf("missing upload params in auth response"), NilPtr)
    ELSE
        Step("upload", [up EXCEPT !.auth = w.body, !.lastModified = w.resp.lmv],
             w.sent, w.got)

\* the first authorization request, with If-None-Match: *
UploadAuthorize ==
    /\ pc = "auth"
    /\ \E reply \in AuthReplies :
        LET w == doFileAuthRequest(client, ctxDone, FilePath(up), AuthForm(up), "*", "", reply)
        IN  IF w.err # NoErr /\ w.resp # NilPtr /\ w.resp.status = 412
            THEN Step("auth_retry", up, w.sent, w.got)
            ELSE Authorized(w)

\* the second one, with If-Match: <md5>, after a 412
UploadAuthorizeRetry ==
    /\ pc = "auth_retry"
    /\ \E reply \in AuthReplies :
        Authorized(doFileAuthRequest(client, ctxDone, FilePath(up), AuthForm(up), "",
                                     up.md5String, reply))

\* UploadRequest with the Zotero-API-Key header of the API requests
UploadRequestWithAPIKey(l) ==
    [method |-> "POST",
     url |-> l.auth.url.s,
     apiKey |-> client.APIKey,
     contentType |-> "multipart/form-data",
     hasIUS |-> FALSE,
     ius |-> 0,
     ifNoneMatch |-> "",
     ifMatch |-> "",
     body |-> [tag |-> "multipart",
               fields |-> [f \in {g \in DOMAIN l.auth.params.o :
                                     "s" \in DOMAIN l.auth.params.o[g]}
                             |-> l.auth.params.o[f].s],
               file |-> l.filename],
     waited |-> FALSE]

\* the multipart request to the storage service
UploadRequest(l) ==
    [method |-> "POST",
     url |-> l.auth.url.s,
     apiKey |-> "",
     contentType |-> "multipart/form-data",
     hasIUS |-> FALSE,
     ius |-> 0,
     ifNoneMatch |-> "",
     ifMatch |-> "",
     body |-> [tag |-> "multipart",
               fields |-> [f \in {g \in DOMAIN l.auth.params.o :
                                     "s" \in DOMAIN l.auth.params.o[g]}
                             |-> l.auth.params.o[f].s],
               file |-> l.filename],
     waited |-> FALSE]

\* UploadFile going on to the registration after every successful upload
UploadFileAlwaysRegistering ==
    /\ pc = "upload"
    /\ \E reply \in StorageReplies :
        LET req == UploadRequest(up)
        IN  IF ctxDone THEN
                Finish(<<>>, <<>>, Errorf("error uploading file"), NilPtr)
            ELSE IF reply.kind = "neterr" THEN
                Finish(<<req>>, <<reply>>, Errorf("error uploading file"), NilPtr)
            ELSE IF reply.status \notin {200, 201, 204} THEN
                Finish(<<req>>, <<reply>>,
                       ErrorfStatus("upload failed with status", reply.status,
                                    IF reply.kind = "readerr" THEN EmptyBody ELSE reply.body),
                       NilPtr)
            ELSE
                Step("register", up, <<req>>, <<reply>>)

\* the multipart upload; then the choice between registering and fetching
UploadFile ==
    /\ pc = "upload"
    /\ \E reply \in StorageReplies :
        LET req == UploadRequest(up)
            version == Atoi(up.lastModified)
        IN  IF ctxDone THEN
                Finish(<<>>, <<>>, Errorf("error uploading file"), NilPtr)
            ELSE IF reply.kind = "neterr" THEN
                Finish(<<req>>, <<reply>>, Errorf("error uploading file"), NilPtr)
            ELSE IF reply.status \notin {200, 201, 204} THEN
                Finish(<<req>>, <<reply>>,
                       ErrorfStatus("upload failed with status", reply.status,
                                    IF reply.kind = "readerr" THEN EmptyBody ELSE reply.body),
                       NilPtr)
            ELSE IF up.lastModified # <<>> /\ version.ok THEN
                Step("register", up, <<req>>, <<reply>>)
            ELSE
                Step("get", up, <<req>>, <<reply>>)

\* UploadRegister without the test of the registration status
UploadRegisterUnchecked ==
    /\ pc = "register"
    /\ \E reply \in RegisterReplies :
        LET registerBody == JSONBody([upload |-> up.auth.uploadKey])
            version == Atoi(up.lastModified).val
            w == doWriteRequest(client, ctxDone, "POST", FilePath(up), registerBody,
                                version, reply)
        IN  IF w.err # NoErr THEN
                Finish(w.sent, w.got, Wrap("error registering upload", w.err), NilPtr)
            ELSE Step("get", up, w.sent, w.got)

\* the registration of the upload
UploadRegister ==
    /\ pc = "register"
    /\ \E reply \in RegisterReplies :
        LET registerBody == JSONBody([upload |-> up.auth.uploadKey])
            version == Atoi(up.lastModified).val
            w == doWriteRequest(client, ctxDone, "POST", FilePath(up), registerBody,
                                version, reply)
        IN  IF w.err # NoErr THEN
                Finish(w.sent, w.got, Wrap("error registering upload", w.err), NilPtr)
            ELSE IF w.resp.status # 204 THEN
                Finish(w.sent, w.got,
                       ErrorfStatus("unexpected status code from register", w.resp.status,
                                    NoText),
                       NilPtr)
            ELSE Step("get", up, w.sent, w.got)

\* the final fetch, whose result is the result of the call
UploadFetch ==
    /\ pc = "get"
    /\ \E reply \in FinalReplies :
        LET out == Item(client, ctxDone, up.attachmentKey, reply)
        IN  Finish(out.sent, out.got, out.err, out.value)

\* the caller cancels the context while the call is between two requests
CancelContext ==
    /\ pc \in {"auth", "auth_retry", "upload", "register", "get"}
    /\ ~ctxDone
    /\ ctxDone' = TRUE
    /\ UNCHANGED <<client, op, args, after, pc, requests, responses, result, up, server, prev>>

\* the caller has its result; the client holds no state between calls
Returned ==
    /\ pc = "done"
    /\ pc' = "idle"
    /\ ctxDone' = FALSE
    /\ op' = "none"
    /\ args' = NoArgs
    /\ after' = NoArgs
    /\ requests' = <<>>
    /\ responses' = <<>>
    /\ result' = [err |-> NoErr, value |-> NilPtr]
    /\ up' = NoLocals
    /\ UNCHANGED <<client, server, prev>>

CallUpdateCollection ==
    /\ pc = "idle"
    /\ UNCHANGED <<server, prev>>
    /\ \E coll \in Collections \cup {NilPtr}, d \in BOOLEAN, reply \in PlainReplies :
        Return("UpdateCollection", coll, d, UpdateCollection(client, d, coll, reply))

CallUpdateSearch ==
    /\ pc = "idle"
    /\ UNCHANGED <<server, prev>>
    /\ \E search \in Searches \cup {NilPtr}, d \in BOOLEAN, reply \in PlainReplies :
        Return("UpdateSearch", search, d, UpdateSearch(client, d, search, reply))

CallDeleteCollection ==
    /\ pc = "idle"
    /\ UNCHANGED <<server, prev>>
    /\ \E k \in Keys, v \in Versions, d \in BOOLEAN, reply \in PlainReplies :
        Return("DeleteCollection", [key |-> k, version |-> v], d,
               DeleteCollection(client, d, k, v, reply))

CallDeleteSearch ==
    /\ pc = "idle"
    /\ UNCHANGED <<server, prev>>
    /\ \E k \in Keys, v \in Versions, d \in BOOLEAN, reply \in PlainReplies :
        Return("DeleteSearch", [key |-> k, version |-> v], d,
               DeleteSearch(client, d, k, v, reply))

CallDeleteItems ==
    /\ pc = "idle"
    /\ UNCHANGED <<server, prev>>
    /\ \E ks \in KeyLists, v \in Versions, d \in BOOLEAN, reply \in PlainReplies :
        Return("DeleteItems", [keys |-> ks, version |-> v], d,
               DeleteItems(client, d, ks, v, reply))

CallDeleteCollections ==
    /\ pc = "idle"
    /\ UNCHANGED <<server, prev>>
    /\ \E ks \in KeyLists, v \in Versions, d \in BOOLEAN, reply \in PlainReplies :
        Return("DeleteCollections", [keys |-> ks, version |-> v], d,
               DeleteCollections(client, d, ks, v, reply))

CallDeleteSearches ==
    /\ pc = "idle"
    /\ UNCHANGED <<server, prev>>
    /\ \E ks \in KeyLists, v \in Versions, d \in BOOLEAN, reply \in PlainReplies :
        Return("DeleteSearches", [keys |-> ks, version |-> v], d,
               DeleteSearches(client, d, ks, v, reply))

CallDeleteTags ==
    /\ pc = "idle"
    /\ UNCHANGED <<server, prev>>
    /\ \E ts \in TagLists, v \in Versions, d \in BOOLEAN, reply \in PlainReplies :
        Return("DeleteTags", [version |-> v, tags |-> ts], d,
               DeleteTags(client, d, v, ts, reply))

FullItem == CHOOSE e \in BatchItems : e.Key # "" /\ e.Version # 0 /\ e.Data.Key # ""
FullCollection ==
    CHOOSE e \in BatchCollections : e.Key # "" /\ e.Version # 0 /\ e.Data.Key # ""
FullSearch == CHOOSE e \in BatchSearches : e.Key # "" /\ e.Version # 0 /\ e.Data.Key # ""

CallItem ==
    /\ pc = "idle"
    /\ UNCHANGED <<server, prev>>
    /\ \E k \in Keys, d \in BOOLEAN, reply \in ItemReplies :
        Return("Item", [key |-> k], d, Item(client, d, k, reply))

CallLastModifiedVersion ==
    /\ pc = "idle"
    /\ UNCHANGED <<server, prev>>
    /\ \E d \in BOOLEAN, reply \in Replies({EmptyBody, JunkBody}, LMVHeaders) :
        Return("LastModifiedVersion", NoArgs, d, LastModifiedVersion(client, d, reply))

CallGroups ==
    /\ pc = "idle"
    /\ UNCHANGED <<server, prev>>
    /\ \E d \in BOOLEAN, reply \in Replies({EmptyBody, JunkBody, GroupsBody}, {<<>>}) :
        Return("Groups", NoArgs, d, Groups(client, d, reply))

CallCreateItems ==
    /\ pc = "idle"
    /\ UNCHANGED <<server, prev>>
    /\ \E items \in Lists(BatchItems, FullItem), d \in BOOLEAN, reply \in BatchReplies :
        Return("CreateItems", [list |-> items], d,
               [CreateItems(client, d, items, reply) EXCEPT !.after = [list |-> @]])

CallCreateCollections ==
    /\ pc = "idle"
    /\ UNCHANGED <<server, prev>>
    /\ \E colls \in Lists(BatchCollections, FullCollection), d \in BOOLEAN,
          reply \in BatchReplies :
        Return("CreateCollections", [list |-> colls], d,
               [CreateCollections(client, d, colls, reply) EXCEPT !.after = [list |-> @]])

CallCreateSearches ==
    /\ pc = "idle"
    /\ UNCHANGED <<server, prev>>
    /\ \E searches \in Lists(BatchSearches, FullSearch), d \in BOOLEAN,
          reply \in BatchReplies :
        Return("CreateSearches", [list |-> searches], d,
               [CreateSearches(client, d, searches, reply) EXCEPT !.after = [list |-> @]])

CallUpdateItems ==
    /\ pc = "idle"
    /\ UNCHANGED <<server, prev>>
    /\ \E items \in Lists(BatchItems, FullItem), d \in BOOLEAN, reply \in BatchReplies :
        Return("UpdateItems", [list |-> items], d,
               [UpdateItems(client, d, items, reply) EXCEPT !.after = [list |-> @]])

CallUpdateCollections ==
    /\ pc = "idle"
    /\ UNCHANGED <<server, prev>>
    /\ \E colls \in Lists(BatchCollections, FullCollection), d \in BOOLEAN,
          reply \in BatchReplies :
        Return("UpdateCollections", [list |-> colls], d,
               [UpdateCollections(client, d, colls, reply) EXCEPT !.after = [list |-> @]])

CallAddTags ==
    /\ pc = "idle"
    /\ UNCHANGED <<server, prev>>
    /\ \E k \in Keys, ts \in NewTagLists, d \in BOOLEAN,
          reply \in FetchReplies, reply2 \in PlainReplies :
        Return("AddTags", [key |-> k, tags |-> ts], d,
               AddTags(client, d, k, ts, reply, reply2))

CallItems ==
    /\ pc = "idle"
    /\ UNCHANGED <<server, prev>>
    /\ \E params \in QueryParamsChoices, d \in BOOLEAN, reply \in ListReplies :
        Return("Items", [params |-> params], d, Items(client, d, params, reply))

CallDeleted ==
    /\ pc = "idle"
    /\ UNCHANGED <<server, prev>>
    /\ \E since \in Versions, d \in BOOLEAN, reply \in ListReplies :
        Return("Deleted", [since |-> since], d, Deleted(client, d, since, reply))

Next ==
    \/ CallAddTags
    \/ CallItems
    \/ CallDeleted
    \/ CallItem
    \/ CallLastModifiedVersion
    \/ CallGroups
    \/ CallCreateItems
    \/ CallCreateCollections
    \/ CallCreateSearches
    \/ CallUpdateItems
    \/ CallUpdateCollections
    \/ CallUpdateItem
    \/ CallUpdateCollection
    \/ CallUpdateSearch
    \/ CallDeleteItem
    \/ CallDeleteCollection
    \/ CallDeleteSearch
    \/ CallDeleteItems
    \/ CallDeleteCollections
    \/ CallDeleteSearches
    \/ CallDeleteTags
    \/ UploadCreate
    \/ UploadAuthorize
    \/ UploadAuthorizeRetry
    \/ UploadFile
    \/ UploadRegister
    \/ UploadFetch
    \/ CancelContext
    \/ Returned

Spec == Init /\ [][Next]_vars

-----------------------------------------------------------------------------
(* The same client against a server that enforces the version header *)

\* the library holds one item; every accepted write gives it the next version
ServerInit == [key |-> "ABCD1234", version |-> 1, title |-> "Concurrency Test", deleted |-> FALSE]

ItemURL(c, key) == c.BaseURL \o "/" \o c.LibraryType \o "/" \o c.LibraryID \o "/items/" \o key

ServerReply(status, body, srv) ==
    [kind |-> "resp", status |-> status, body |-> body, lmv |-> Itoa(srv.version)]

\* 404 for an unknown item, 428 for a write without the header, 412 for a
\* version that is not the current one, 204 for an accepted write
ServerAnswer(c, srv, req) ==
    IF req.url # ItemURL(c, srv.key) \/ srv.deleted THEN ServerReply(404, JunkBody, srv)
    ELSE IF req.method = "GET" THEN
        ServerReply(200, ItemBody(ServerItem(srv.key, srv.version, srv.title,
                                             Field(srv, "tags", <<>>))), srv)
    ELSE IF ~req.hasIUS THEN ServerReply(428, JunkBody, srv)
    ELSE IF req.ius # srv.version THEN ServerReply(412, JunkBody, srv)
    ELSE ServerReply(204, EmptyBody, srv)

\* the state of the server after the request
ServerApply(c, srv, req) ==
    IF ServerAnswer(c, srv, req).status # 204 THEN srv
    ELSE IF req.method = "DELETE" THEN
        [srv EXCEPT !.version = srv.version + 1, !.deleted = TRUE]
    ELSE
        [srv EXCEPT !.version = srv.version + 1,
                    !.title = IF "title" \in DOMAIN req.body.val
                              THEN req.body.val.title.s ELSE srv.title]

InitV ==
    /\ client \in Clients
    /\ ctxDone = FALSE
    /\ op = "none"
    /\ args = NoArgs
    /\ after = NoArgs
    /\ pc = "idle"
    /\ requests = <<>>
    /\ responses = <<>>
    /\ result = [err |-> NoErr, value |-> NilPtr]
    /\ up = NoLocals
    /\ server = ServerInit
    /\ prev = NoCall

\* a call of one request against the server
Served(name, a, d, probe, out) ==
    /\ Return(name, a, d, out)
    /\ server' = IF probe.sent = <<>> THEN server ELSE ServerApply(client, server, probe.sent[1])
    /\ server'.version <= MaxVersion + 1
    /\ UNCHANGED prev

\* the answer the server gives to the request of the call, if it sends one
Answer(probe) ==
    IF probe.sent = <<>> THEN NetErr ELSE ServerAnswer(client, server, probe.sent[1])

ServedUpdateItem ==
    /\ pc = "idle"
    /\ \E item \in ItemChoices \cup {NilPtr}, d \in BOOLEAN :
        LET probe == UpdateItem(client, d, item, NetErr)
        IN  Served("UpdateItem", item, d, probe, UpdateItem(client, d, item, Answer(probe)))

ServedDeleteItem ==
    /\ pc = "idle"
    /\ \E k \in Keys, v \in Versions, d \in BOOLEAN :
        LET probe == DeleteItem(client, d, k, v, NetErr)
        IN  Served("DeleteItem", [key |-> k, version |-> v], d, probe,
                   DeleteItem(client, d, k, v, Answer(probe)))

ServedItem ==
    /\ pc = "idle"
    /\ \E k \in Keys, d \in BOOLEAN :
        LET probe == Item(client, d, k, NetErr)
        IN  Served("Item", [key |-> k], d, probe, Item(client, d, k, Answer(probe)))

\* the caller has its result and remembers what the call was, and what it
\* passed when the call succeeded
ServedReturned ==
    /\ pc = "done"
    /\ pc' = "idle"
    /\ prev' = IF result.err = NoErr THEN [op |-> op, args |-> args, ok |-> TRUE]
                ELSE [op |-> op, args |-> NoArgs, ok |-> FALSE]
    /\ ctxDone' = FALSE
    /\ op' = "none"
    /\ args' = NoArgs
    /\ after' = NoArgs
    /\ requests' = <<>>
    /\ responses' = <<>>
    /\ result' = [err |-> NoErr, value |-> NilPtr]
    /\ up' = NoLocals
    /\ UNCHANGED <<client, server>>

NextV ==
    \/ ServedUpdateItem
    \/ ServedDeleteItem
    \/ ServedItem
    \/ ServedReturned

SpecV == InitV /\ [][NextV]_vars

-----------------------------------------------------------------------------
(* Two callers running AddTags on one item of a version-enforcing server.
   pc, args, up and result hold one entry per caller; requests and
   responses hold the last exchange; prev holds the tag names whose addition
   was acknowledged to a caller that has returned *)

Callers == {1, 2}

\* ServerApply for an item with tags: an accepted PATCH that carries tags
\* replaces the tag list
ServerApplyTags(c, srv, req) ==
    LET next == ServerApply(c, srv, req)
    IN  IF next.version # srv.version /\ req.method = "PATCH"
           /\ "tags" \in DOMAIN req.body.val
        THEN [next EXCEPT !.tags = req.body.val.tags.l]
        ELSE next

InitT ==
    /\ client = NewClient("users", "test-key", 1)
    /\ ctxDone = FALSE
    /\ op = "AddTags"
    /\ args = [p \in Callers |-> NoArgs]
    /\ after = NoArgs
    /\ pc = [p \in Callers |-> "idle"]
    /\ requests = <<>>
    /\ responses = <<>>
    /\ result = [p \in Callers |-> [err |-> NoErr, value |-> NilPtr]]
    /\ up = [p \in Callers |-> NilPtr]
    /\ server = [key |-> "ABCD1234", version |-> 1, title |-> "Concurrency Test",
                 deleted |-> FALSE, tags |-> <<>>]
    /\ prev = {}

\* AddTags up to the return of c.Item
TagsFetch(p) ==
    /\ pc[p] = "idle"
    /\ \E k \in Keys, ts \in NewTagLists :
        LET early == AddTags(client, FALSE, k, ts, NetErr, NetErr)
            fetched == Item(client, FALSE, k,
                            ServerAnswer(client, server, ReadRequest(client, "GET", "/items/" \o k, "")))
        IN  /\ args' = [args EXCEPT ![p] = [key |-> k, tags |-> ts]]
            /\ IF early.sent = <<>> THEN
                   /\ pc' = [pc EXCEPT ![p] = "done"]
                   /\ result' = [result EXCEPT ![p] = [err |-> early.err, value |-> NilPtr]]
                   /\ UNCHANGED <<requests, responses, up>>
               ELSE
                   /\ requests' = fetched.sent
                   /\ responses' = fetched.got
                   /\ IF fetched.err # NoErr THEN
                          /\ pc' = [pc EXCEPT ![p] = "done"]
                          /\ result' = [result EXCEPT
                                           ![p] = [err |-> Wrap("error fetching item", fetched.err),
                                                   value |-> NilPtr]]
                          /\ up' = up
                      ELSE
                          /\ pc' = [pc EXCEPT ![p] = "fetched"]
                          /\ up' = [up EXCEPT ![p] = fetched.value.item]
                          /\ result' = result
    /\ UNCHANGED <<client, ctxDone, op, after, server, prev>>

\* the update the caller makes with the item it holds
TagsUpdateOf(p) ==
    LET item == WithTags(up[p], args[p].tags)
        probe == UpdateItem(client, FALSE, item, NetErr)
    IN  UpdateItem(client, FALSE, item, ServerAnswer(client, server, probe.sent[1]))

\* AddTags from the return of c.Item to its own return
TagsUpdate(p) ==
    /\ pc[p] = "fetched"
    /\ LET u == TagsUpdateOf(p)
       IN  /\ requests' = u.sent
           /\ responses' = u.got
           /\ server' = ServerApplyTags(client, server, u.sent[1])
           /\ result' = [result EXCEPT ![p] = [err |-> u.err, value |-> NilPtr]]
    /\ server'.version <= MaxVersion + 1
    /\ pc' = [pc EXCEPT ![p] = "done"]
    /\ up' = [up EXCEPT ![p] = NilPtr]
    /\ UNCHANGED <<client, ctxDone, op, args, after, prev>>

\* the caller has its result; a nil error acknowledges the tags it asked for
TagsReturned(p) ==
    /\ pc[p] = "done"
    /\ pc' = [pc EXCEPT ![p] = "idle"]
    /\ prev' = IF result[p].err = NoErr
                THEN prev \cup {args[p].tags[i] : i \in DOMAIN args[p].tags}
                ELSE prev
    /\ args' = [args EXCEPT ![p] = NoArgs]
    /\ result' = [result EXCEPT ![p] = [err |-> NoErr, value |-> NilPtr]]
    /\ UNCHANGED <<client, ctxDone, op, after, requests, responses, up, server>>

NextT == \E p \in Callers : TagsFetch(p) \/ TagsUpdate(p) \/ TagsReturned(p)

SpecT == InitT /\ [][NextT]_vars

-----------------------------------------------------------------------------
(* Properties *)

SingleUpdates == {"UpdateItem", "UpdateCollection", "UpdateSearch"}
BatchUpdates == {"UpdateItems", "UpdateCollections"}
SingleDeletes == {"DeleteItem", "DeleteCollection", "DeleteSearch"}
BatchDeletes == {"DeleteItems", "DeleteCollections", "DeleteSearches"}
BatchCreates == {"CreateItems", "CreateCollections", "CreateSearches"}

\* the call returned an error and sent nothing
Rejected == result.err # NoErr /\ requests = <<>>

\* an element of a batch update lacks its key or its version
Incomplete(list) ==
    \E i \in 1 .. Len(list) : ResolveKey(list[i]) = "" \/ ResolveVersion(list[i]) = 0

\* C1: every update and delete operation called with an empty key, or with a
\* resolved version of 0 (the envelope's version, else the data's, or the
\* version passed to a delete), returns an error and sends no request.
C1_MissingKeyOrVersionRejected ==
    pc = "done" =>
        /\ (op \in SingleUpdates /\ args # NilPtr
            /\ (ResolveKey(args) = "" \/ ResolveVersion(args) = 0)) => Rejected
        /\ (op \in BatchUpdates /\ Incomplete(args.list)) => Rejected
        /\ (op \in SingleDeletes /\ (args.key = "" \/ args.version = 0)) => Rejected
        /\ (op \in BatchDeletes \cup {"DeleteTags"} /\ args.version = 0) => Rejected

\* the version the caller's input resolves to
CallerVersion ==
    IF op \in SingleUpdates THEN ResolveVersion(args) ELSE args.version

\* C2: every PATCH of a single update and every DELETE of a delete operation
\* carries If-Unmodified-Since-Version with the version resolved from the
\* caller's input; none is sent without the header, whatever the input.
C2_VersionHeaderOnEveryWrite ==
    (pc = "done" /\ op \in SingleUpdates \cup SingleDeletes \cup BatchDeletes \cup {"DeleteTags"})
        => \A i \in DOMAIN requests :
               requests[i].method \in {"PATCH", "DELETE"}
                   => requests[i].hasIUS /\ requests[i].ius = CallerVersion

\* the list a batch operation was called with
BatchOf == IF op \in BatchDeletes THEN args.keys ELSE args.list

\* everything but the size of the batch is in order
OtherwiseValid ==
    IF op \in BatchDeletes THEN args.version # 0
    ELSE IF op \in BatchUpdates THEN ~Incomplete(args.list)
    ELSE TRUE

\* C3: a batch write called with 0 or with more than 50 elements returns an
\* error without a request; called with exactly 50 otherwise valid elements
\* (and a live context) it passes the size check and sends its request.
C3_BatchSizeLimits ==
    (pc = "done" /\ op \in BatchCreates \cup BatchUpdates \cup BatchDeletes)
        => /\ (Len(BatchOf) = 0 \/ Len(BatchOf) > 50) => Rejected
           /\ (Len(BatchOf) = 50 /\ OtherwiseValid /\ ~ctxDone) => Len(requests) = 1

C3_FiftySent ==
    /\ pc = "done"
    /\ op = "DeleteItems"
    /\ Len(args.keys) = 50
    /\ Len(requests) = 1
    /\ result.err = NoErr

\* C4: against the version-enforcing server, once UpdateItem has succeeded
\* carrying version N, an UpdateItem that still carries N returns an error
\* and the stored title is the one the first update wrote.
C4_StaleUpdateRejected ==
    (pc = "done" /\ op = "UpdateItem" /\ args # NilPtr
     /\ prev.op = "UpdateItem" /\ prev.ok
     /\ ResolveVersion(args) = ResolveVersion(prev.args))
        => result.err # NoErr /\ server.title = prev.args.Data.Title

C4_StaleUpdateAnswered412 ==
    /\ pc = "done" /\ op = "UpdateItem" /\ args # NilPtr
    /\ prev.op = "UpdateItem" /\ prev.ok
    /\ ResolveVersion(args) = ResolveVersion(prev.args)
    /\ args.Data.Title # prev.args.Data.Title
    /\ Len(responses) = 1
    /\ responses[1].status = 412

-----------------------------------------------------------------------------
(* Properties of UploadAttachment *)

LibraryURL == client.BaseURL \o "/" \o client.LibraryType \o "/" \o client.LibraryID

\* which of the five requests of an upload a request is
StepOf(req) ==
    IF req.method = "GET" THEN "get"
    ELSE IF req.contentType = "application/x-www-form-urlencoded" THEN "auth"
    ELSE IF req.contentType = "multipart/form-data" THEN "upload"
    ELSE IF req.url = LibraryURL \o "/items" THEN "create"
    ELSE "register"

Rank(req) ==
    CASE StepOf(req) = "create" -> 1
      [] StepOf(req) = "auth" -> 2
      [] StepOf(req) = "upload" -> 3
      [] StepOf(req) = "register" -> 4
      [] StepOf(req) = "get" -> 5

Answered(i) == responses[i].kind # "neterr"

\* an authorization response the call goes on with
Accepted(i) ==
    /\ StepOf(requests[i]) = "auth"
    /\ responses[i].kind = "resp"
    /\ responses[i].status < 400
    /\ responses[i].body.tag = "auth"

ReportsExists(i) ==
    /\ Accepted(i)
    /\ "n" \in DOMAIN responses[i].body.exists
    /\ responses[i].body.exists.n = 1

\* the step of request i did what the next step needs
Succeeded(i) ==
    LET r == responses[i]
        step == StepOf(requests[i])
    IN  /\ Answered(i)
        /\ CASE step = "create" ->
                    /\ r.kind = "resp" /\ r.status = 200 /\ r.body.tag = "wr"
                    /\ DOMAIN r.body.success # {}
             [] step = "auth" ->
                    /\ Accepted(i)
                    /\ \/ ReportsExists(i)
                       \/ /\ "s" \in DOMAIN r.body.url
                          /\ "o" \in DOMAIN r.body.params
             [] step = "upload" -> r.status \in {200, 201, 204}
             [] step = "register" -> r.kind = "resp" /\ r.status = 204
             [] step = "get" -> r.kind = "resp" /\ r.status < 400 /\ r.body.tag = "item"

\* request i is a first authorization request answered 412 and tried again
Retried(i) ==
    /\ StepOf(requests[i]) = "auth"
    /\ Answered(i)
    /\ responses[i].status = 412
    /\ i < Len(requests)
    /\ StepOf(requests[i + 1]) = "auth"
    /\ StepOf(requests[i - 1]) # "auth"

\* C5: the requests of an upload come in the order create, authorization(s),
\* upload, registration, final GET; a request is sent only after every
\* earlier step succeeded; a failed step ends the call with an error and a
\* nil item, and the call succeeds only through the final GET.
C5_UploadStepsInOrder ==
    op = "UploadAttachment" =>
        /\ Len(responses) = Len(requests)
        /\ requests # <<>> => StepOf(requests[1]) = "create"
        /\ \A i, j \in DOMAIN requests :
               i < j => \/ Rank(requests[i]) < Rank(requests[j])
                        \/ StepOf(requests[i]) = "auth" /\ StepOf(requests[j]) = "auth"
        /\ \A i \in DOMAIN requests : i < Len(requests) => Succeeded(i) \/ Retried(i)
        /\ pc = "done" =>
               /\ result.err # NoErr => result.value = NilPtr
               /\ (requests # <<>> /\ ~Succeeded(Len(requests))) => result.err # NoErr
               /\ result.err = NoErr =>
                      /\ requests # <<>>
                      /\ StepOf(requests[Len(requests)]) = "get"
                      /\ result.value # NilPtr

C5_AllSixRequests ==
    /\ pc = "done"
    /\ op = "UploadAttachment"
    /\ Len(requests) = 6
    /\ StepOf(requests[5]) = "register"
    /\ result.err = NoErr

AuthIndexes == {i \in DOMAIN requests : StepOf(requests[i]) = "auth"}

\* C6: the first authorization request carries If-None-Match: * and no
\* If-Match; a second one is sent exactly when the first is answered 412 (the
\* context being live), with If-Match: <md5 of the file> and no If-None-Match;
\* there are at most two; if the last one fails the upload ends with an error.
C6_AuthorizationRetry ==
    op = "UploadAttachment" =>
        /\ Cardinality(AuthIndexes) <= 2
        /\ \A i \in AuthIndexes :
               IF i - 1 \notin AuthIndexes
               THEN /\ requests[i].ifNoneMatch = "*"
                    /\ requests[i].ifMatch = ""
                    /\ (Answered(i) /\ responses[i].status = 412
                        /\ ~ctxDone /\ pc # "auth_retry") => i + 1 \in AuthIndexes
               ELSE /\ requests[i].ifMatch = MD5Hex(ReadFile(args.filepath).data)
                    /\ requests[i].ifNoneMatch = ""
                    /\ Answered(i - 1)
                    /\ responses[i - 1].status = 412
        /\ pc = "done" =>
               \A i \in AuthIndexes :
                   (i + 1 \notin AuthIndexes
                    /\ (~Answered(i) \/ responses[i].status >= 400))
                       => /\ result.err # NoErr
                          /\ result.value = NilPtr
                          /\ i = Len(requests)

C6_SecondAlso412 ==
    /\ pc = "done"
    /\ op = "UploadAttachment"
    /\ Len(requests) = 3
    /\ requests[3].ifMatch # ""
    /\ responses[2].kind = "resp"
    /\ responses[2].status = 412
    /\ responses[3].kind = "resp"
    /\ responses[3].status = 412
    /\ result.err # NoErr

\* the call is over and its result is that of a GET of the attachment item
\* sent as request k, the last one; or the context was cancelled before it
FetchReturned(k) ==
    /\ pc = "done"
    /\ Len(requests) <= k
    /\ IF Len(requests) = k THEN
            /\ requests[k].method = "GET"
            /\ requests[k].url = LibraryURL \o "/items/" \o up.attachmentKey
            /\ IF Succeeded(k)
               THEN /\ result.err = NoErr
                    /\ result.value = [tag |-> "item", item |-> responses[k].body.item]
               ELSE /\ result.err # NoErr
                    /\ result.value = NilPtr
       ELSE /\ ctxDone
            /\ result.err # NoErr
            /\ result.value = NilPtr

\* C7: when the accepted authorization response says exists = 1, no upload
\* and no registration request is sent: the only later request is a GET of
\* the attachment item, and its result is the result of the call.
C7_ExistingFileSkipsUpload ==
    op = "UploadAttachment" =>
        \A i \in DOMAIN requests :
            ReportsExists(i) =>
                /\ \A j \in DOMAIN requests : StepOf(requests[j]) \notin {"upload", "register"}
                /\ pc = "get" \/ FetchReturned(i + 1)

C7_ExistingItemReturned ==
    /\ pc = "done"
    /\ op = "UploadAttachment"
    /\ Len(requests) = 3
    /\ ReportsExists(2)
    /\ StepOf(requests[3]) = "get"
    /\ result.err = NoErr
    /\ result.value # NilPtr

\* the registration request i of the upload, for the version v
RegistrationRequest(i, v) ==
    /\ requests[i].method = "POST"
    /\ requests[i].url = LibraryURL \o "/items/" \o up.attachmentKey \o "/file"
    /\ requests[i].contentType = "application/json"
    /\ requests[i].hasIUS = (v > 0)
    /\ requests[i].hasIUS => requests[i].ius = v

\* the upload is over at request i, with an error
Aborted(i) ==
    /\ pc = "done"
    /\ result.err # NoErr
    /\ result.value = NilPtr
    /\ Len(requests) = i

\* C8 (as the code has it): an upload answered other than 200, 201 or 204
\* ends the call with an error. After one of those, if the authorization
\* response's Last-Modified-Version is an integer, a registration POST goes
\* to /items/{key}/file, with that integer as If-Unmodified-Since-Version
\* when it is positive; a registration answer other than 204 ends the call
\* with an error; after a 204 the result is that of a fresh GET of the
\* attachment item. If the header is missing or not an integer, no
\* registration is sent and the GET follows the upload.
C8_RegistrationWhenVersionKnown ==
    op = "UploadAttachment" =>
        \A i \in DOMAIN requests :
            StepOf(requests[i]) = "upload" =>
                LET v == Atoi(responses[i - 1].lmv)
                IN  IF ~Succeeded(i) THEN Aborted(i)
                    ELSE IF ~v.ok THEN pc = "get" \/ FetchReturned(i + 1)
                    ELSE IF Len(requests) = i THEN pc = "register" \/ (ctxDone /\ Aborted(i))
                    ELSE /\ RegistrationRequest(i + 1, v.val)
                         /\ IF ~Succeeded(i + 1) THEN Aborted(i + 1)
                            ELSE pc = "get" \/ FetchReturned(i + 2)

C8_RegisteredThenFetched ==
    /\ pc = "done"
    /\ op = "UploadAttachment"
    /\ Len(requests) = 5
    /\ StepOf(requests[3]) = "upload"
    /\ requests[4].hasIUS
    /\ requests[4].ius = MaxVersion
    /\ responses[4].status = 204
    /\ result.err = NoErr

\* C8 (as stated): after an upload answered 200, 201 or 204 a registration
\* POST is sent, with If-Unmodified-Since-Version set to the authorization
\* response's Last-Modified-Version.
C8_RegistrationAlwaysSent ==
    (op = "UploadAttachment" /\ ~ctxDone) =>
        \A i \in DOMAIN requests :
            (StepOf(requests[i]) = "upload" /\ Succeeded(i)) =>
                \/ pc = "register"
                \/ /\ Len(requests) > i
                   /\ StepOf(requests[i + 1]) = "register"
                   /\ requests[i + 1].hasIUS
                   /\ Itoa(requests[i + 1].ius) = responses[i - 1].lmv

\* the keys the create response assigned
AssignedKeys(body) ==
    {body.success[i].s : i \in {j \in DOMAIN body.success : "s" \in DOMAIN body.success[j]}}

\* the create request was answered with a write response
Created ==
    /\ requests # <<>>
    /\ responses[1].kind = "resp"
    /\ responses[1].status = 200
    /\ responses[1].body.tag = "wr"

\* C9: an authorization request is sent only after a non-empty key was taken
\* from the success map of the create response, and its path names that key;
\* with an empty success map and a non-empty failed map the call ends with
\* that failure's message, with both empty it ends with a generic error, and
\* in neither case is an authorization request sent.
C9_KeyExtractedBeforeAuthorization ==
    op = "UploadAttachment" =>
        /\ \A i \in AuthIndexes :
               /\ up.attachmentKey # ""
               /\ up.attachmentKey \in AssignedKeys(responses[1].body)
               /\ requests[i].url = LibraryURL \o "/items/" \o up.attachmentKey \o "/file"
        /\ (pc = "done" /\ Created /\ DOMAIN responses[1].body.success = {}) =>
               /\ Len(requests) = 1
               /\ IF DOMAIN responses[1].body.failed # {}
                  THEN \E f \in DOMAIN responses[1].body.failed :
                           result.err.kind = "failed to create attachment: "
                                             \o responses[1].body.failed[f].message
                  ELSE result.err.kind
                           = "failed to create attachment: no success or error reported"

\* the results an operation hands back with an error
ZeroResults == {NilPtr, IntValue(0)}

\* response i is the 412 to the first authorization request of an upload
FirstAuthorization412(i) ==
    /\ op = "UploadAttachment"
    /\ StepOf(requests[i]) = "auth"
    /\ StepOf(requests[i - 1]) # "auth"
    /\ responses[i].status = 412

\* the call returned the error of response i, and no result
ReportedAsError(i) ==
    /\ i = Len(responses)
    /\ result.err # NoErr
    /\ result.err.status = responses[i].status
    /\ result.err.body = responses[i].body
    /\ result.value \in ZeroResults

\* C10 (as the code has it): a response with status >= 400 whose body was
\* read makes the call return an error that holds the status and the body,
\* with a nil or zero result, except the 412 to the first authorization
\* request of UploadAttachment, after which the request is tried again.
C10_ErrorStatusReported ==
    pc = "done" =>
        \A i \in DOMAIN responses :
            (responses[i].kind = "resp" /\ responses[i].status >= 400
             /\ ~FirstAuthorization412(i)) => ReportedAsError(i)

C10_ItemNotFound ==
    /\ pc = "done"
    /\ op = "Item"
    /\ Len(responses) = 1
    /\ responses[1].kind = "resp"
    /\ responses[1].status = 400
    /\ responses[1].body = JunkBody
    /\ result.err.status = 400
    /\ result.err.body = JunkBody
    /\ result.value = NilPtr

\* C10 (as stated): every response with status >= 400 makes the call return
\* an error that holds the status and the body, with a nil or zero result.
C10_EveryErrorStatusReported ==
    pc = "done" =>
        \A i \in DOMAIN responses :
            (responses[i].kind = "resp" /\ responses[i].status >= 400)
                => ReportedAsError(i)

-----------------------------------------------------------------------------
(* C11: partial and total failures of a batch are reported in the value *)

\* the single response of the finished call is a 200 whose body decodes into
\* a WriteResponse
Decoded200 ==
    /\ Len(responses) = 1
    /\ responses[1].kind = "resp"
    /\ responses[1].status = 200
    /\ UnmarshalWriteResponse(responses[1].body).ok

\* C11: a create or batch update answered with 200 and a decodable body
\* returns a nil error and a WriteResponse whose success, unchanged and failed
\* maps are those of the body, whatever the failed map holds.
C11_FailedEntriesAreNotAnError ==
    (pc = "done" /\ op \in BatchCreates \cup BatchUpdates /\ Decoded200)
        => /\ result.err = NoErr
           /\ result.value # NilPtr
           /\ result.value.Success = responses[1].body.success
           /\ result.value.Unchanged = responses[1].body.unchanged
           /\ result.value.Failed = responses[1].body.failed

\* a one-element batch update whose only element failed returned without error
C11_WholeBatchFailed ==
    /\ pc = "done"
    /\ op = "UpdateItems"
    /\ Len(args.list) = 1
    /\ Decoded200
    /\ DOMAIN responses[1].body.failed = {"0"}
    /\ result.err = NoErr
    /\ result.value.Failed = responses[1].body.failed

-----------------------------------------------------------------------------
(* C12: the status each kind of write call accepts *)

\* the statuses the claim names for the kind of the finished call
ExpectedStatuses ==
    IF op \in BatchCreates \cup BatchUpdates THEN {200}
    ELSE IF op \in SingleUpdates THEN {204, 200}
    ELSE {204}

\* the finished call got one response, read in full, with a status below 400
AnsweredBelow400 ==
    /\ Len(responses) = 1
    /\ responses[1].kind = "resp"
    /\ responses[1].status < 400

\* C12: a write call answered with a status below 400 returns a nil error
\* only when the status is the expected one of its kind (200 for creates and
\* batch updates, 204 or 200 for single updates, 204 for deletes) and
\* returns an error for every other status.
C12_OnlyExpectedStatusSucceeds ==
    (/\ pc = "done"
     /\ op \in BatchCreates \cup BatchUpdates \cup SingleUpdates
                \cup SingleDeletes \cup BatchDeletes \cup {"DeleteTags"}
     /\ AnsweredBelow400)
        => (result.err = NoErr <=> /\ responses[1].status \in ExpectedStatuses
                                   /\ (op \in BatchCreates \cup BatchUpdates
                                           => UnmarshalWriteResponse(responses[1].body).ok))

\* a delete answered 200 returned the unexpected-status error
C12_DeleteAnswered200 ==
    /\ pc = "done"
    /\ op = "DeleteCollection"
    /\ AnsweredBelow400
    /\ responses[1].status = 200
    /\ result.err.kind = "unexpected status code"
    /\ result.err.status = 200

-----------------------------------------------------------------------------
(* C13: a context cancelled before the call *)

\* C13: an operation invoked with an already cancelled context returns an
\* error and no request reaches the server, whether the client has a rate
\* limiter (its wait fails) or not (httpClient.Do fails before sending).
C13_CancelledContextSendsNothing ==
    [][(pc = "idle" /\ ctxDone')
          => (pc' = "done" /\ result'.err # NoErr /\ requests' = <<>>)]_vars

\* a read on a client without rate limiter, invoked with a cancelled
\* context, failed in httpClient.Do with nothing sent
C13_CancelledReadWithoutLimiter ==
    /\ pc = "done"
    /\ op = "Item"
    /\ ctxDone
    /\ ~client.rateLimiter
    /\ requests = <<>>
    /\ result.err = Errorf("error executing request")

-----------------------------------------------------------------------------
(* C14: the rate limiter in front of every request *)

\* C14: with rate limiting enabled (RateLimit > 0) every request an
\* operation sends, the request of Groups and the multipart upload POST of
\* UploadAttachment included, was preceded by a successful rate-limiter wait
\* made for it; with RateLimit 0 no wait is made.
C14_EveryRequestWaited ==
    \A i \in DOMAIN requests : requests[i].waited = (client.RateLimit > 0)

-----------------------------------------------------------------------------
(* C15: Groups needs a user library *)

\* C15: Groups called on a client whose library type is group returns an
\* error and sends no HTTP request.
C15_GroupsOfGroupLibraryRejected ==
    (pc = "done" /\ op = "Groups" /\ client.LibraryType = "groups") => Rejected

\* Groups on a group library with a live context returned the library-type
\* error
C15_GroupLibraryError ==
    /\ pc = "done"
    /\ op = "Groups"
    /\ client.LibraryType = "groups"
    /\ ~ctxDone
    /\ requests = <<>>
    /\ result.err = Errorf("groups() requires user library type")

-----------------------------------------------------------------------------
(* C16: the retry configuration changes nothing *)

\* the operations that run from entry to return in one step
OneExchangeOps ==
    SingleUpdates \cup BatchUpdates \cup SingleDeletes \cup BatchDeletes \cup BatchCreates
    \cup {"DeleteTags", "Item", "Items", "Deleted", "LastModifiedVersion", "Groups"}

\* the finished call made again on client c: same operation, same
\* arguments, same context, the server answering `reply`
Replay(c, reply) ==
    CASE op = "UpdateItem" -> UpdateItem(c, ctxDone, args, reply)
      [] op = "UpdateCollection" -> UpdateCollection(c, ctxDone, args, reply)
      [] op = "UpdateSearch" -> UpdateSearch(c, ctxDone, args, reply)
      [] op = "DeleteItem" -> DeleteItem(c, ctxDone, args.key, args.version, reply)
      [] op = "DeleteCollection" -> DeleteCollection(c, ctxDone, args.key, args.version, reply)
      [] op = "DeleteSearch" -> DeleteSearch(c, ctxDone, args.key, args.version, reply)
      [] op = "DeleteItems" -> DeleteItems(c, ctxDone, args.keys, args.version, reply)
      [] op = "DeleteCollections" ->
             DeleteCollections(c, ctxDone, args.keys, args.version, reply)
      [] op = "DeleteSearches" -> DeleteSearches(c, ctxDone, args.keys, args.version, reply)
      [] op = "DeleteTags" -> DeleteTags(c, ctxDone, args.version, args.tags, reply)
      [] op = "CreateItems" -> CreateItems(c, ctxDone, args.list, reply)
      [] op = "CreateCollections" -> CreateCollections(c, ctxDone, args.list, reply)
      [] op = "CreateSearches" -> CreateSearches(c, ctxDone, args.list, reply)
      [] op = "UpdateItems" -> UpdateItems(c, ctxDone, args.list, reply)
      [] op = "UpdateCollections" -> UpdateCollections(c, ctxDone, args.list, reply)
      [] op = "Item" -> Item(c, ctxDone, args.key, reply)
      [] op = "Items" -> Items(c, ctxDone, args.params, reply)
      [] op = "Deleted" -> Deleted(c, ctxDone, args.since, reply)
      [] op = "LastModifiedVersion" -> LastModifiedVersion(c, ctxDone, reply)
      [] op = "Groups" -> Groups(c, ctxDone, reply)

\* the server behaviours the replayed call is put against: the answer the
\* call got, or every answer when the call never reached the server
SameServer ==
    IF responses # <<>> THEN {responses[1]}
    ELSE BatchReplies \cup ItemReplies \cup ListReplies
         \cup Replies({EmptyBody, JunkBody, GroupsBody}, LMVHeaders)

\* exchange i of the call failed: transport error or status >= 400
FailedExchange(i) ==
    \/ responses[i].kind = "neterr"
    \/ responses[i].status >= 400

-----------------------------------------------------------------------------
(* C17: the parent reference of a collection on the wire *)

\* the collection data payloads the finished call sent, each with the
\* CollectionData it encodes
SentCollectionData ==
    IF requests = <<>> THEN {}
    ELSE IF op = "UpdateCollection" THEN
        {[data |-> args.Data, json |-> requests[1].body.val]}
    ELSE IF op = "CreateCollections" THEN
        {[data |-> args.list[i].Data, json |-> requests[1].body.val[i]] :
            i \in DOMAIN args.list}
    ELSE {}

\* C17: a collection data payload with an empty parent reference is encoded
\* with a parentCollection field holding false, and false decodes to the
\* empty reference; a non-empty parent key is encoded as that string and
\* decodes back to the same key.
C17_ParentReferenceOnTheWire ==
    pc = "done" =>
        \A e \in SentCollectionData :
            /\ "parentCollection" \in DOMAIN e.json
            /\ e.data.ParentCollection = ""
                   => /\ e.json.parentCollection = [b |-> FALSE]
                      /\ UnmarshalParentCollectionRef(e.json.parentCollection)
                             = [ok |-> TRUE, val |-> ""]
            /\ e.data.ParentCollection # ""
                   => /\ e.json.parentCollection = [s |-> e.data.ParentCollection]
                      /\ UnmarshalParentCollectionRef(e.json.parentCollection)
                             = [ok |-> TRUE, val |-> e.data.ParentCollection]

-----------------------------------------------------------------------------
(* C18: the request of DeleteTags *)

\* C18: DeleteTags called with at least one tag and a non-zero version
\* (and a live context) sends one DELETE to the /tags resource of the
\* library whose tag parameters name the caller's tags, in order, with the
\* supplied version as If-Unmodified-Since-Version.
C18_DeleteTagsNamesTheTags ==
    (pc = "done" /\ op = "DeleteTags" /\ ~ctxDone
     /\ Len(args.tags) >= 1 /\ args.version # 0)
        => /\ Len(requests) = 1
           /\ requests[1].method = "DELETE"
           /\ requests[1].url = LibraryURL \o "/tags?tag=" \o Join(args.tags, "&tag=")
           /\ requests[1].hasIUS
           /\ requests[1].ius = args.version

-----------------------------------------------------------------------------
(* C19: multi-valued filters in the query string *)

\* url.QueryUnescape, chunk by chunk
QueryUnescape(t) ==
    [i \in 1 .. Len(t) |->
        CASE t[i] = "+" -> " "
          [] t[i] = "%7C" -> "|"
          [] t[i] = "%2C" -> ","
          [] t[i] = "%3D" -> "="
          [] t[i] = "%26" -> "&"
          [] OTHER -> t[i]]

\* the pieces of text t between the occurrences of the chunk sep
RECURSIVE Split(_, _)
Split(t, sep) ==
    IF \A i \in DOMAIN t : t[i] # sep THEN <<t>>
    ELSE LET first == CHOOSE i \in DOMAIN t :
                          t[i] = sep /\ \A j \in 1 .. (i - 1) : t[j] # sep
         IN  <<SubSeq(t, 1, first - 1)>> \o Split(SubSeq(t, first + 1, Len(t)), sep)

\* the parameters a server reads from a query string (Request.URL.Query()),
\* in the order they stand in it
ParseQuery(query) ==
    IF query = <<>> THEN <<>>
    ELSE LET pairs == Split(Tail(query), "&")
         IN  [i \in DOMAIN pairs |->
                 LET kv == Split(pairs[i], "=")
                 IN  [key |-> Text(QueryUnescape(kv[1])), value |-> QueryUnescape(kv[2])]]

\* the values the parsed query holds for a key, in order
ValuesOf(parsed, key) ==
    LET hits == SelectSeq(parsed, LAMBDA kv : kv.key = key)
    IN  [i \in DOMAIN hits |-> hits[i].value]

\* the texts of a list put one after the other with sep between them
RECURSIVE Joined(_, _)
Joined(list, sep) ==
    IF Len(list) = 1 THEN list[1]
    ELSE Joined(SubSeq(list, 1, Len(list) - 1), sep) \o sep \o list[Len(list)]

\* the query string of the finished Items call, as the server parses it
ItemsQuery == ParseQuery(buildQueryString(args.params))

-----------------------------------------------------------------------------
(* C20: limit, start and since only when positive *)

\* the keys of a parsed query
KeysOf(parsed) == {parsed[i].key : i \in DOMAIN parsed}

\* C20: the query string holds limit, start and since exactly when the value
\* is > 0, with the value in decimal; Deleted with a since <= 0 sends its
\* request with no since parameter, Deleted with since n > 0 sends since=n.
C20_OnlyPositiveNumbers ==
    /\ (pc = "done" /\ op = "Items" /\ args.params # NilPtr)
           => /\ "limit" \in KeysOf(ItemsQuery) <=> args.params.Limit > 0
              /\ "start" \in KeysOf(ItemsQuery) <=> args.params.Start > 0
              /\ "since" \in KeysOf(ItemsQuery) <=> args.params.Since > 0
              /\ args.params.Limit > 0
                     => ValuesOf(ItemsQuery, "limit") = <<<<ToString(args.params.Limit)>>>>
              /\ args.params.Start > 0
                     => ValuesOf(ItemsQuery, "start") = <<<<ToString(args.params.Start)>>>>
              /\ args.params.Since > 0
                     => ValuesOf(ItemsQuery, "since") = <<<<ToString(args.params.Since)>>>>
    /\ (pc = "done" /\ op = "Deleted" /\ ~ctxDone)
           => /\ Len(requests) = 1
              /\ requests[1].method = "GET"
              /\ requests[1].url
                     = LibraryURL \o "/deleted"
                           \o (IF args.since > 0 THEN "?since=" \o ToString(args.since)
                               ELSE "")

\* Deleted(ctx, 0) sent its request without a query string
C20_DeletedSinceZero ==
    /\ pc = "done"
    /\ op = "Deleted"
    /\ args.since = 0
    /\ Len(requests) = 1
    /\ requests[1].url = LibraryURL \o "/deleted"
    /\ result.err = NoErr

-----------------------------------------------------------------------------
(* C21: the order of the parameters in the query string *)

\* the letters of the parameter keys, in byte order
Letters ==
    <<"A", "B", "C", "D", "E", "F", "G", "H", "I", "J", "K", "L", "M", "N", "O", "P", "Q",
      "R", "S", "T", "U", "V", "W", "X", "Y", "Z", "a", "b", "c", "d", "e", "f", "g", "h",
      "i", "j", "k", "l", "m", "n", "o", "p", "q", "r", "s", "t", "u", "v", "w", "x", "y",
      "z">>

LetterRank(ch) == CHOOSE i \in DOMAIN Letters : Letters[i] = ch

\* the parameter keys, letter by letter
Spelling ==
    [custom |-> <<"c", "u", "s", "t", "o", "m">>,
     format |-> <<"f", "o", "r", "m", "a", "t">>,
     include |-> <<"i", "n", "c", "l", "u", "d", "e">>,
     itemKey |-> <<"i", "t", "e", "m", "K", "e", "y">>,
     itemType |-> <<"i", "t", "e", "m", "T", "y", "p", "e">>,
     limit |-> <<"l", "i", "m", "i", "t">>,
     locale |-> <<"l", "o", "c", "a", "l", "e">>,
     q |-> <<"q">>,
     qmode |-> <<"q", "m", "o", "d", "e">>,
     since |-> <<"s", "i", "n", "c", "e">>,
     sort |-> <<"s", "o", "r", "t">>,
     start |-> <<"s", "t", "a", "r", "t">>,
     style |-> <<"s", "t", "y", "l", "e">>,
     tag |-> <<"t", "a", "g">>]

\* key a stands before key b in ascending alphabetical (byte) order
Before(a, b) ==
    LET x == Spelling[a]
        y == Spelling[b]
    IN  \E i \in 1 .. (Len(x) + 1) :
            /\ \A j \in 1 .. (i - 1) : j <= Len(y) /\ x[j] = y[j]
            /\ \/ i = Len(x) + 1 /\ Len(y) >= i
               \/ /\ i <= Len(x) /\ i <= Len(y)
                  /\ LetterRank(x[i]) < LetterRank(y[i])

-----------------------------------------------------------------------------
(* C22: several tags or item keys in one parameter *)

\* the finished Items call filtered by nothing but the tags tag1, tag2
OnlyTwoTags ==
    /\ args.params # NilPtr
    /\ args.params = [NoParams EXCEPT !.Tag = <<<<"tag1">>, <<"tag2">>>>]

\* the finished Items call filtered by nothing but the keys KEY1, KEY2
OnlyTwoItemKeys ==
    /\ args.params # NilPtr
    /\ args.params = [NoParams EXCEPT !.ItemKey = <<<<"KEY1">>, <<"KEY2">>>>]

-----------------------------------------------------------------------------
(* C23: concurrent AddTags *)

\* the tag names whose addition has been acknowledged with a nil error
Acknowledged ==
    prev \cup UNION {{args[p].tags[i] : i \in DOMAIN args[p].tags} :
                        p \in {q \in Callers : pc[q] = "done" /\ result[q].err = NoErr}}

ServerTagNames == {server.tags[i].Tag : i \in DOMAIN server.tags}

\* C23: with two callers running AddTags on one item, the update of each
\* carries the version its own fetch observed; an update made after the
\* other caller's update was applied is answered 412 and returned as an
\* error, and no tag whose addition was acknowledged is missing from the
\* item.
C23_NoAcknowledgedTagLost ==
    /\ Acknowledged \subseteq ServerTagNames
    /\ \A p \in Callers :
           pc[p] = "fetched"
               => LET u == TagsUpdateOf(p)
                  IN  /\ u.sent[1].hasIUS
                      /\ u.sent[1].ius = up[p].Version
                      /\ up[p].Version # server.version
                             => /\ u.err # NoErr
                                /\ u.err.status = 412
                                /\ ServerApplyTags(client, server, u.sent[1]) = server

\* one caller's update was rejected with 412 after the other's was applied
C23_StaleUpdateRejected ==
    \E p, q \in Callers :
        /\ p # q
        /\ pc[p] = "done" /\ result[p].err # NoErr /\ result[p].err.status = 412
        /\ pc[q] = "done" /\ result[q].err = NoErr
        /\ args[q].tags[1] \in ServerTagNames
        /\ args[p].tags[1] \notin ServerTagNames

-----------------------------------------------------------------------------
(* C24: the tag list AddTags sends *)

\* the names of a tag list, in order
TagNamesOf(tagList) == [i \in DOMAIN tagList |-> tagList[i].Tag]

\* a list without the repetitions of its entries
RECURSIVE FirstOccurrences(_)
FirstOccurrences(list) ==
    IF list = <<>> THEN <<>>
    ELSE LET front == FirstOccurrences(SubSeq(list, 1, Len(list) - 1))
             last == list[Len(list)]
         IN  IF \E i \in DOMAIN front : front[i] = last THEN front ELSE Append(front, last)

\* the tag list in the update request of the finished AddTags call
SentTags ==
    IF "tags" \in DOMAIN requests[2].body.val THEN requests[2].body.val.tags.l ELSE <<>>

\* C24: the tag list in the update of AddTags is the fetched item's tags in
\* their order followed by the requested names that were not present, and
\* it holds no name twice when the fetched list held none, whatever the
\* argument list, one that repeats a name included.
C24_TagsAppendedOnce ==
    (pc = "done" /\ op = "AddTags" /\ Len(requests) = 2)
        => LET fetchedTags == responses[1].body.item.Data.Tags
               existing == {fetchedTags[i].Tag : i \in DOMAIN fetchedTags}
               missing == FirstOccurrences(SelectSeq(args.tags, LAMBDA n : n \notin existing))
           IN  /\ Len(SentTags) = Len(fetchedTags) + Len(missing)
               /\ SubSeq(SentTags, 1, Len(fetchedTags)) = fetchedTags
               /\ SubSeq(TagNamesOf(SentTags), Len(fetchedTags) + 1, Len(SentTags)) = missing
               /\ \A i, j \in DOMAIN SentTags :
                      SentTags[i].Tag = SentTags[j].Tag => i = j

\* the data object json.Marshal makes of an element of a batch
MarshalledData(o, e) ==
    IF o = "UpdateItems" THEN MarshalItemData(e.Data) ELSE MarshalCollectionData(e.Data)

\* C25: a finished UpdateItems or UpdateCollections call on a list of 1 to
\* MaxBatch elements under a live context takes each element's key and version
\* from the envelope when that is non-empty / non-zero and else from the data;
\* when some element has an empty key or a zero version so taken the call
\* fails and no request was sent; otherwise exactly one POST was sent to the
\* collection endpoint, without If-Unmodified-Since-Version, whose i-th
\* payload is the i-th element's data with key and version set to those values.
C25_BatchUpdatePayload ==
    (/\ pc = "done"
     /\ op \in {"UpdateItems", "UpdateCollections"}
     /\ ~ctxDone
     /\ Len(args.list) \in 1 .. MaxBatch)
        => LET list == args.list
               key == [i \in DOMAIN list |->
                          IF list[i].Key # "" THEN list[i].Key ELSE list[i].Data.Key]
               version == [i \in DOMAIN list |->
                              IF list[i].Version # 0 THEN list[i].Version
                              ELSE list[i].Data.Version]
               endpoint == IF op = "UpdateItems" THEN "/items" ELSE "/collections"
           IN  IF \E i \in DOMAIN list : key[i] = "" \/ version[i] = 0 THEN
                   /\ result.err # NoErr
                   /\ requests = <<>>
               ELSE
                   /\ Len(requests) = 1
                   /\ requests[1].method = "POST"
                   /\ requests[1].url = LibraryURL \o endpoint
                   /\ ~requests[1].hasIUS
                   /\ Len(requests[1].body.val) = Len(list)
                   /\ \A i \in DOMAIN list :
                          LET sent == requests[1].body.val[i]
                              data == MarshalledData(op, list[i])
                          IN  /\ DOMAIN sent = DOMAIN data \cup {"key", "version"}
                              /\ sent.key = [s |-> key[i]]
                              /\ sent.version = [n |-> version[i]]
                              /\ \A f \in DOMAIN data \ {"key", "version"} :
                                     sent[f] = data[f]

\* a batch update was sent whose element has an envelope key and version
\* differing from the non-empty data-level ones
C25_EnvelopeOverData ==
    /\ pc = "done"
    /\ op \in {"UpdateItems", "UpdateCollections"}
    /\ Len(requests) = 1
    /\ \E i \in DOMAIN args.list :
           /\ args.list[i].Key # "" /\ args.list[i].Data.Key # ""
           /\ args.list[i].Key # args.list[i].Data.Key
           /\ args.list[i].Version # 0 /\ args.list[i].Data.Version # 0
           /\ args.list[i].Version # args.list[i].Data.Version

\* C26: the payload a finished CreateItems, CreateCollections or
\* CreateSearches call sent holds one data object per element, in order, and
\* none of them has a key field or a version field, whatever key or version
\* the caller's element carries at envelope level or at data level.
C26_CreatePayloadWithoutKeyAndVersion ==
    (/\ pc = "done"
     /\ op \in {"CreateItems", "CreateCollections", "CreateSearches"}
     /\ Len(requests) = 1)
        => /\ Len(requests[1].body.val) = Len(args.list)
           /\ \A i \in DOMAIN args.list :
                  /\ "key" \notin DOMAIN requests[1].body.val[i]
                  /\ "version" \notin DOMAIN requests[1].body.val[i]

\* the Last-Modified-Version header h is missing or is not an integer
NoVersionIn(h) == h = <<>> \/ \E i \in DOMAIN h : h[i] \notin DigitChars \cup {"-", "+"}

\* C27: when the accepted authorization response has no Last-Modified-Version
\* header, or one that is not an integer, then after a multipart upload
\* answered 200, 201 or 204 the call sends no registration request: it is at
\* the final GET of the attachment item or has returned what that GET gave,
\* a success when the GET succeeded.
C27_NoVersionNoRegistration ==
    op = "UploadAttachment" =>
        \A i \in DOMAIN requests :
            (/\ StepOf(requests[i]) = "upload"
             /\ Succeeded(i)
             /\ NoVersionIn(responses[i - 1].lmv))
                => /\ pc # "register"
                   /\ \A j \in DOMAIN requests : StepOf(requests[j]) # "register"
                   /\ pc = "get" \/ FetchReturned(i + 1)

\* an upload without a version header that returned the fetched item
C27_FetchedWithoutRegistration ==
    /\ pc = "done"
    /\ op = "UploadAttachment"
    /\ Len(requests) = 4
    /\ StepOf(requests[3]) = "upload"
    /\ responses[2].lmv \in {<<>>, <<"x">>}
    /\ StepOf(requests[4]) = "get"
    /\ result.err = NoErr
    /\ result.value # NilPtr

\* C28: an UploadAttachment call that returned an error after its create
\* request had succeeded sent nothing that undoes the creation: no DELETE,
\* only POST and GET requests, every one after the first addressed to the
\* attachment item or to the upload URL, and none following the request
\* that failed (but for the one repetition of the authorization after a 412).
C28_NoCompensatingRequest ==
    (/\ pc = "done"
     /\ op = "UploadAttachment"
     /\ result.err # NoErr
     /\ requests # <<>>
     /\ Succeeded(1))
        => /\ \A i \in DOMAIN requests :
                  /\ requests[i].method # "DELETE"
                  /\ requests[i].method \in {"POST", "GET"}
           /\ requests[1].method = "POST" /\ requests[1].url = LibraryURL \o "/items"
           /\ \A i \in 2 .. Len(requests) :
                  \/ /\ requests[i].method = "POST"
                     /\ requests[i].url = LibraryURL \o "/items/" \o up.attachmentKey \o "/file"
                  \/ /\ requests[i].method = "POST"
                     /\ StepOf(requests[i]) = "upload"
                     /\ Succeeded(i - 1)
                     /\ requests[i].url = responses[i - 1].body.url.s
                  \/ /\ requests[i].method = "GET"
                     /\ requests[i].url = LibraryURL \o "/items/" \o up.attachmentKey
           /\ \A i \in DOMAIN requests : i < Len(requests) => Succeeded(i) \/ Retried(i)

\* an upload that failed at the storage service, after the item was created
C28_FailedAfterCreation ==
    /\ pc = "done"
    /\ op = "UploadAttachment"
    /\ result.err # NoErr
    /\ Len(requests) = 3
    /\ Succeeded(1)
    /\ StepOf(requests[3]) = "upload"
    /\ ~Succeeded(3)

\* C29: when a create, batch-update or batch-delete call, AddTags or
\* DeleteTags has returned, the list (or the tag names) the caller passed
\* holds the values it held when the call was made.
C29_ArgumentsUnchanged ==
    (/\ pc = "done"
     /\ op \in BatchCreates \cup BatchUpdates \cup BatchDeletes \cup {"AddTags", "DeleteTags"})
        => after = args

\* request i of an upload is the multipart POST to the upload URL that the
\* authorization response before it gave
ToUploadURL(i) ==
    /\ i > 1
    /\ Accepted(i - 1)
    /\ "s" \in DOMAIN responses[i - 1].body.url
    /\ requests[i].method = "POST"
    /\ requests[i].contentType = "multipart/form-data"
    /\ requests[i].url = responses[i - 1].body.url.s

\* request i of an upload is addressed to the library under the base URL
ToBaseURL(i) ==
    \/ requests[i].url = LibraryURL \o "/items"
    \/ requests[i].url = LibraryURL \o "/items/" \o up.attachmentKey \o "/file"
    \/ requests[i].url = LibraryURL \o "/items/" \o up.attachmentKey

\* C30: a request carries the Zotero-API-Key header only with the configured
\* key and never to the upload URL; each request of UploadAttachment is
\* either addressed to the library under the configured base URL or is the
\* multipart POST to the upload URL of the authorization response, and that
\* POST carries no API key, whatever key is configured.
C30_APIKeyOnlyToBaseURL ==
    /\ \A i \in DOMAIN requests :
           requests[i].apiKey # ""
               => /\ requests[i].apiKey = client.APIKey
                  /\ requests[i].url # StorageURL.s
    /\ op = "UploadAttachment"
           => \A i \in DOMAIN requests :
                  IF ToUploadURL(i) THEN requests[i].apiKey = ""
                  ELSE ToBaseURL(i) /\ requests[i].apiKey = client.APIKey

\* a client with an API key has sent the multipart POST to the upload URL
C30_UploadSentByKeyedClient ==
    /\ op = "UploadAttachment"
    /\ client.APIKey = "test-key"
    /\ Len(requests) >= 3
    /\ requests[1].apiKey = "test-key"
    /\ ToUploadURL(3)
    /\ requests[3].apiKey = ""

====
